---- MODULE Spec2Model ----
(***************************************************************************)
(* The networking service of the node (src/src/ipfs_embed/net/mod.rs):     *)
(* NetworkService::new and its identity file, the swarm driver task, the   *)
(* facade methods that reach the swarm under one mutex, and the query      *)
(* handles GetQuery and SyncQuery.                                         *)
(*                                                                         *)
(* A facade method is modelled as the sequence of the steps its body       *)
(* takes ("lock", the call made on the swarm or behaviour, "wake",         *)
(* "unlock", "await"); a caller thread executes the steps of its current   *)
(* call one at a time, interleaved with the driver and the other callers.  *)
(* The behaviour (net/behaviour.rs) is not part of the sources at hand:    *)
(* its query map, its cancel and its completion of queries follow the      *)
(* written specification.                                                  *)
(***************************************************************************)
EXTENDS Integers, Sequences, FiniteSets, TLC

(* ------------------------------ bounds -------------------------------- *)

\* QueryIds the behaviour hands out in one run
MaxQueries == 2
\* events the swarm can have ready at once
MaxWork == 2
\* constructions of the service in one run
MaxNew == 3
\* clones of the NetworkService alive at once
MaxClones == 2

\* ListenerIds the swarm hands out in one run
MaxListeners == 2
\* events the swarm emits in one run besides the listeners' first addresses
MaxEvents == 2
\* progress events the behaviour writes to one sync channel
MaxProgress == 2
\* characters of the uri handed to verify_oid
MaxUri == 5

Callers == {"c1", "c2"}
Driver == "driver"
Parties == Callers \cup {Driver}

Dirs == {"d1", "d2"}
Keys == {"k1", "k2"}

\* Option::None of a QueryId; the behaviour's ids start at 1
None == 0

(* ------------------------------ values -------------------------------- *)

NoCid == "-"
OkRes == [tag |-> "Ok", cid |-> NoCid]
QueryError == [tag |-> "QueryError", cid |-> NoCid]
Canceled == [tag |-> "Canceled", cid |-> NoCid]
NoRes == [tag |-> "none", cid |-> NoCid]
BlockNotFound(cid) == [tag |-> "BlockNotFound", cid |-> cid]

Complete(res) == [ev |-> "Complete", res |-> res]
\* SyncEvent::Progress { missing }
Progress(missing) == [ev |-> "Progress", res |-> NoRes, missing |-> missing]

\* a channel: the messages not yet read (buf), whether the writer is alive,
\* and every message ever written to it (log)
NoChan == [buf |-> <<>>, txOpen |-> FALSE, log |-> <<>>]
OpenChan == [buf |-> <<>>, txOpen |-> TRUE, log |-> <<>>]

NoPeer == [alg |-> "none", key |-> "-"]
NoAddr == [base |-> "-", p2p |-> NoPeer]

(* ----------------------- identity and its file ------------------------ *)

\* the content of <db_path>/kp: absent, bytes in one of two encodings, or
\* what a write that failed part-way left: the first bytes of a key, or none
Absent == [enc |-> "absent", key |-> "-"]
RsaPkcs8File(k) == [enc |-> "rsa_pkcs8", key |-> k]
Truncated == [enc |-> "truncated", key |-> "-"]

\* how an fs::write ends: all bytes written; refused before the file is
\* created (no directory, no permission, no descriptor); or failed after the
\* file was created or emptied (file too large, disk full)
FsWrite == {"written", "refused", "cut"}

\* identity::Keypair::generate_ed25519()
generate_ed25519(k) == [alg |-> "Ed25519", key |-> k]

\* ed25519::Keypair::encode(): the 64 raw bytes secret || public
ed25519_encode(kp) == [enc |-> "ed25519_raw", key |-> kp.key]

\* identity::Keypair::rsa_from_pkcs8(): accepts a DER PKCS#8 RSA private key only
rsa_from_pkcs8(bytes) ==
    IF bytes.enc = "rsa_pkcs8"
    THEN [ok |-> TRUE, kp |-> [alg |-> "Rsa", key |-> bytes.key]]
    ELSE [ok |-> FALSE, kp |-> NoPeer]

\* kp.public().into_peer_id(): the hash of the public key, one per key
into_peer_id(kp) == [alg |-> kp.alg, key |-> kp.key]

\* fs::read(db_path.join("kp")).await: the bytes of the file, or an error
\* when there is no file or the file system does not give it (rd = FALSE)
fs_read(file, rd) ==
    IF file # Absent /\ rd THEN [ok |-> TRUE, bytes |-> file]
    ELSE [ok |-> FALSE, bytes |-> Absent]

\* NetworkService::new, the identity part, for the content of db_path/kp,
\* whether fs::read gives it, the key a generation draws, and how fs::write
\* ends: the result, the peer id, the content of the file afterwards,
\* whether a key was generated and whether the file was touched
new_identity(file, rd, k, w) ==
    LET read == fs_read(file, rd) IN
    IF read.ok
    THEN LET r == rsa_from_pkcs8(read.bytes) IN
         [ok |-> r.ok,
          peer |-> IF r.ok THEN into_peer_id(r.kp) ELSE NoPeer,
          file |-> file,
          generated |-> FALSE,
          wrote |-> FALSE]
    ELSE LET kp == generate_ed25519(k) IN
         [ok |-> w = "written",
          peer |-> IF w = "written" THEN into_peer_id(kp) ELSE NoPeer,
          file |-> CASE w = "written" -> ed25519_encode(kp)
                     [] w = "cut" -> Truncated
                     [] OTHER -> file,
          generated |-> TRUE,
          wrote |-> w # "refused"]

(* ---------------------- the facade's method bodies --------------------- *)
(* Each body is the sequence of steps the method takes, in program order.  *)
(* "lock": self.swarm.lock(); "unlock": the guard goes out of scope;        *)
(* "wake": self.waker.wake(); "read": a snapshot taken through the guard;   *)
(* "apply": the mutating call made on the swarm or its behaviour;           *)
(* "submit", "submit_get", "submit_sync": a query-submission call of the    *)
(* behaviour, returning the channel (and for get and sync the QueryId);     *)
(* "await": rx.await; "swarm_events": behaviour_mut().swarm_events();       *)
(* "swarm_listen_on": swarm.listen_on(addr)?;                               *)
(* "peer_id": *swarm.local_peer_id(); "normalize_addr": the call of        *)
(* peers::normalize_addr on the argument; "read_external_addresses" and    *)
(* "add_external_address": the swarm calls of those names; "GetQuery",      *)
(* "SyncQuery": the struct literal is built; "ready_ok", "ready_err":       *)
(* SyncQuery::ready; "take_swarm": self.swarm.take().unwrap(); "cancel":    *)
(* behaviour_mut().cancel(id).                                              *)

SyncRead == <<"lock", "read", "unlock">>

local_peer_id == <<"lock", "peer_id", "unlock">>
local_node_name == SyncRead
listeners == SyncRead
external_addresses == <<"lock", "read_external_addresses", "unlock">>
peers == SyncRead
connections == SyncRead
is_connected == SyncRead
peer_info == SyncRead
is_bootstrapped == SyncRead
register_metrics == SyncRead

\* listen_on(addr)?: the early return of `?` leaves before the wake
\* a listen_on that starts the listener first and subscribes afterwards, in a
\* second hold of the lock
listen_on_subscribes_late(ok) ==
    IF ok THEN <<"lock", "swarm_listen_on", "wake", "unlock",
                 "lock", "swarm_events", "unlock">>
    ELSE <<"lock", "swarm_events", "unlock">>

listen_on(ok) ==
    IF ok THEN <<"lock", "swarm_events", "swarm_listen_on", "wake", "unlock">>
    ELSE <<"lock", "swarm_events", "unlock">>

\* an adapter that ends at the close of any listener
take_while_any_listener(event, listener) == event.kind # "ListenerClosed"

\* the predicate of take_while: the stream goes on until its own listener closes
take_while(event, listener) ==
    ~(event.kind = "ListenerClosed" /\ event.id = listener)

\* the closure of filter_map: Some(ListenerEvent) for the two address events
\* of the own listener, None for every other event
filter_map(event, listener) ==
    IF event.kind = "NewListenAddr" /\ event.id = listener
    THEN [some |-> TRUE, kind |-> "NewListenAddr", addr |-> event.addr]
    ELSE IF event.kind = "ExpiredListenAddr" /\ event.id = listener
    THEN [some |-> TRUE, kind |-> "ExpiredListenAddr", addr |-> event.addr]
    ELSE [some |-> FALSE, kind |-> "none", addr |-> NoAddr]

\* an add_external_address that calls local_peer_id with its own guard alive
add_external_address_nested_lock ==
    <<"lock", "lock", "peer_id", "unlock", "normalize_addr",
      "add_external_address", "wake", "unlock">>

\* an add_external_address that stores the address as the caller passed it
add_external_address_as_passed ==
    <<"lock", "add_external_address", "wake", "unlock">>

\* an add_external_address that wakes the driver without the swarm call
add_external_address_not_applied ==
    local_peer_id \o <<"normalize_addr", "lock", "wake", "unlock">>

add_external_address ==
    local_peer_id
    \o <<"normalize_addr", "lock", "add_external_address", "wake", "unlock">>
add_address == <<"lock", "apply", "wake", "unlock">>
remove_address == <<"lock", "apply", "wake", "unlock">>
dial == <<"lock", "apply", "wake", "unlock">>
ban == <<"lock", "apply", "wake", "unlock">>
unban == <<"lock", "apply", "wake", "unlock">>
unprovide == <<"lock", "apply", "wake", "unlock">>
remove_record == <<"lock", "apply", "wake", "unlock">>

subscribe(ok) ==
    IF ok THEN <<"lock", "apply", "wake", "unlock">> ELSE <<"lock", "unlock">>
publish(ok) ==
    IF ok THEN <<"lock", "apply", "wake", "unlock">> ELSE <<"lock", "unlock">>
broadcast(ok) ==
    IF ok THEN <<"lock", "apply", "wake", "unlock">> ELSE <<"lock", "unlock">>

\* a one-shot query that awaits its channel with the guard still alive
get_closest_peers_guard_kept == <<"lock", "submit", "await", "unlock">>

get_closest_peers == <<"lock", "submit", "unlock", "await">>
providers == <<"lock", "submit", "unlock", "await">>
provide == <<"lock", "submit", "unlock", "await">>
get_record == <<"lock", "submit", "unlock", "await">>
put_record == <<"lock", "submit", "unlock", "await">>

RECURSIVE bootstrap(_)
bootstrap(peerList) ==
    IF peerList = <<>>
    THEN <<"lock", "submit", "unlock", "await">>
    ELSE add_address \o dial \o bootstrap(Tail(peerList))

get == <<"lock", "submit_get", "wake", "GetQuery", "unlock">>

\* a not-found error that names the last missing block
sync_not_found_last(missing) == BlockNotFound(missing[Len(missing)])

\* BlockNotFound(missing[0]) of the second short-circuit
sync_not_found(missing) == BlockNotFound(missing[1])

\* a sync without the short-circuit for an empty `missing`
sync_without_empty_check(providerList, missing) ==
    IF providerList = <<>> /\ missing # <<>> THEN <<"ready_err">>
    ELSE <<"lock", "submit_sync", "wake", "SyncQuery", "unlock">>

sync(providerList, missing) ==
    IF missing = <<>> THEN <<"ready_ok">>
    ELSE IF providerList = <<>> THEN <<"ready_err">>
    ELSE <<"lock", "submit_sync", "wake", "SyncQuery", "unlock">>

swarm_events == <<"lock", "swarm_events", "unlock">>
docs == SyncRead
streams == SyncRead
substreams == SyncRead
stream_head == SyncRead
stream_slice == SyncRead
stream_add_peers == <<"lock", "apply", "unlock">>
stream_remove == <<"lock", "apply", "unlock">>
stream_append == <<"lock", "apply", "unlock">>
stream_subscribe == <<"lock", "apply", "unlock">>
stream_update_head == <<"lock", "apply", "unlock">>

\* a drop that takes the lock and forgets the cancel
GetQuery_drop_no_cancel == <<"take_swarm", "lock", "unlock">>

\* Drop for GetQuery
GetQuery_drop == <<"take_swarm", "lock", "cancel", "unlock">>

\* Drop for SyncQuery: only a handle with an id cancels
SyncQuery_drop(id) ==
    IF id # None THEN <<"take_swarm", "lock", "cancel", "unlock">> ELSE <<>>

(* --------------------------- inputs of calls --------------------------- *)

LocalKey == "k1"
OtherKey == "k2"

\* multiaddrs: a base and an optional terminal /p2p/<peer> component, which
\* a caller may leave out, or set to the local peer or to another peer
Addrs ==
    {[base |-> "/ip4/a", p2p |-> s] :
        s \in {NoPeer, into_peer_id(generate_ed25519(LocalKey)),
                       into_peer_id(generate_ed25519(OtherKey))}}

\* an address a remote peer reports to the swarm as the one it sees
ObservedAddrs == {[base |-> "/ip4/o", p2p |-> NoPeer]}
ListenAddrs == {[base |-> b, p2p |-> NoPeer] : b \in {"/ip4/a", "/ip4/b"}}
ProviderLists == {<<>>, <<"p1">>}
MissingLists == {<<>>, <<"m1">>, <<"m2", "m1">>}
PeerLists == {<<>>, <<"p1">>}

NoArg == [addr |-> NoAddr, ok |-> TRUE, list |-> <<>>, missing |-> <<>>]

ReadMethods ==
    {"local_peer_id", "local_node_name", "listeners", "external_addresses",
     "peers", "connections", "is_connected", "peer_info", "is_bootstrapped",
     "register_metrics", "docs", "streams", "substreams", "stream_head",
     "stream_slice"}

PlainMutations ==
    {"add_address", "remove_address", "dial", "ban", "unban", "unprovide",
     "remove_record", "stream_add_peers", "stream_remove", "stream_append",
     "stream_subscribe", "stream_update_head", "swarm_events"}

FallibleMutations == {"listen_on", "subscribe", "publish", "broadcast"}

OneShotQueries ==
    {"get_closest_peers", "providers", "provide", "get_record", "put_record"}

HandleQueries == {"get", "sync"}

DropMethods == {"GetQuery::drop", "SyncQuery::drop"}

Methods ==
    ReadMethods \cup PlainMutations \cup FallibleMutations \cup OneShotQueries
    \cup HandleQueries \cup {"add_external_address", "bootstrap"}

\* the arguments a call of m is made with
ArgsOf(m) ==
    CASE m = "add_external_address" -> {[NoArg EXCEPT !.addr = a] : a \in Addrs}
      [] m = "listen_on" ->
           {[NoArg EXCEPT !.ok = b, !.addr = a] : b \in BOOLEAN, a \in ListenAddrs}
      [] m \in FallibleMutations -> {[NoArg EXCEPT !.ok = b] : b \in BOOLEAN}
      [] m = "bootstrap" -> {[NoArg EXCEPT !.list = l] : l \in PeerLists}
      [] m = "get" -> {[NoArg EXCEPT !.list = l] : l \in ProviderLists}
      [] m = "sync" ->
           {[NoArg EXCEPT !.list = l, !.missing = ms] :
               l \in ProviderLists, ms \in MissingLists}
      [] OTHER -> {NoArg}

\* the body of method m called with arg
Program(m, arg) ==
    CASE m = "local_peer_id" -> local_peer_id
      [] m = "local_node_name" -> local_node_name
      [] m = "listen_on" -> listen_on(arg.ok)
      [] m = "listeners" -> listeners
      [] m = "add_external_address" -> add_external_address
      [] m = "external_addresses" -> external_addresses
      [] m = "add_address" -> add_address
      [] m = "remove_address" -> remove_address
      [] m = "dial" -> dial
      [] m = "ban" -> ban
      [] m = "unban" -> unban
      [] m = "peers" -> peers
      [] m = "connections" -> connections
      [] m = "is_connected" -> is_connected
      [] m = "peer_info" -> peer_info
      [] m = "bootstrap" -> bootstrap(arg.list)
      [] m = "is_bootstrapped" -> is_bootstrapped
      [] m = "get_closest_peers" -> get_closest_peers
      [] m = "providers" -> providers
      [] m = "provide" -> provide
      [] m = "unprovide" -> unprovide
      [] m = "get_record" -> get_record
      [] m = "put_record" -> put_record
      [] m = "remove_record" -> remove_record
      [] m = "subscribe" -> subscribe(arg.ok)
      [] m = "publish" -> publish(arg.ok)
      [] m = "broadcast" -> broadcast(arg.ok)
      [] m = "get" -> get
      [] m = "sync" -> sync(arg.list, arg.missing)
      [] m = "register_metrics" -> register_metrics
      [] m = "swarm_events" -> swarm_events
      [] m = "docs" -> docs
      [] m = "streams" -> streams
      [] m = "substreams" -> substreams
      [] m = "stream_add_peers" -> stream_add_peers
      [] m = "stream_head" -> stream_head
      [] m = "stream_slice" -> stream_slice
      [] m = "stream_remove" -> stream_remove
      [] m = "stream_append" -> stream_append
      [] m = "stream_subscribe" -> stream_subscribe
      [] m = "stream_update_head" -> stream_update_head
      [] OTHER -> <<>>

\* Methods whose bodies are the same sequence of steps behave alike: a call is
\* recorded under one method of its class, the same for every call of the class
RepTable ==
    [m \in Methods |-> [arg \in ArgsOf(m) |->
        CHOOSE x \in Methods : \E a \in ArgsOf(x) : Program(x, a) = Program(m, arg)]]

Rep(m, arg) == RepTable[m][arg]

\* the names under which the calls of the methods ms are recorded
Reps(ms) == UNION {{Rep(m, a) : a \in ArgsOf(m)} : m \in ms}

Submits == {"submit", "submit_get", "submit_sync"}

HasStep(prog, steps) == \E i \in 1..Len(prog) : prog[i] \in steps

(* ------------------------------- state --------------------------------- *)

VARIABLES
    kpFile,      \* [Dirs -> file content]: the kp file of each directory
    built,       \* the calls of NetworkService::new made so far, in order
    svcPeer,     \* local_peer_id of the running service
    holders,     \* the parties holding the swarm mutex
    frame,       \* [Callers -> the caller's current call]
    handle,      \* [Callers -> the GetQuery or SyncQuery the caller owns]
    queries,     \* the behaviour's in-flight queries: QueryId -> kind
    nextId,      \* the next QueryId the behaviour hands out
    work,        \* events the swarm has ready: poll_next is Ready while > 0
    unpolled,    \* a mutation or submission the driver has not polled after
    extAddrs,    \* the swarm's external addresses: [addr, score]
    returned,    \* the normalised addresses of the add_external_address calls
                 \* that have returned
    dpc,         \* the driver task's position
    notified,    \* the executor has the driver task scheduled for a poll
    registered,  \* the AtomicWaker holds the driver's waker
    panicked,    \* the callers that panicked
    lsn,         \* the swarm's listeners: ListenerId -> [st, addr]
    nextListener,\* the next ListenerId the swarm hands out
    stream,      \* [Callers -> the listen_on stream the caller owns]
    events,      \* the events the swarm has emitted besides first addresses
    clones,      \* the clones of the NetworkService that are alive
    orbitFs,     \* [Oids -> the orbit directory of that oid]
    orbitCall,   \* [Callers -> the caller's create_orbit or load_orbit call]
    orbitCache,  \* [Oids -> the orbit the cache of load_orbit_ holds]
    vo           \* a verify_oid call: its arguments and its result

\* some clone of the NetworkService is alive
svcLive == clones > 0

idVars == <<kpFile, built>>
swarmVars == <<queries, nextId, work, unpolled, extAddrs>>
wakeVars == <<notified, registered>>
listenVars == <<lsn, nextListener, stream, events>>
orbitVars == <<orbitFs, orbitCall, orbitCache>>
outerVars == <<listenVars, clones, orbitVars, vo>>
vars == <<kpFile, built, svcPeer, holders, frame, handle, queries, nextId, work,
          unpolled, extAddrs, returned, dpc, notified, registered, panicked,
          lsn, nextListener, stream, events, clones, orbitFs, orbitCall,
          orbitCache, vo>>

Idle ==
    [m |-> "idle", arg |-> NoArg, rest |-> <<>>, applied |-> FALSE,
     woke |-> FALSE, id |-> None, rx |-> NoChan, peer |-> NoPeer,
     snap |-> {}, pre |-> {}, res |-> NoRes, hit |-> FALSE, sent |-> NoAddr]

\* a query handle; besides its fields: whether it has resolved as a future
\* (done) and with what (out), the events its Future::poll has discarded
\* (dropped), the items its Stream::poll_next has yielded (seen) and whether
\* poll_next has returned None (ended)
NoHandle ==
    [kind |-> "none", swarm |-> FALSE, id |-> None, rx |-> NoChan,
     done |-> FALSE, out |-> NoRes, dropped |-> <<>>, seen |-> <<>>,
     ended |-> FALSE]

Min(a, b) == IF a < b THEN a ELSE b

\* the stream a listen_on call returns: the subscription's channel (buf), the
\* events the adapter has taken from it (hist), the items it has yielded
\* (out, each with the position in hist of the event it came from), and
\* whether take_while has ended it
NoStream ==
    [open |-> FALSE, listener |-> None, asked |-> NoAddr, buf |-> <<>>,
     hist |-> <<>>, out |-> <<>>, ended |-> FALSE]

SwarmEvent(kind, id, addr) == [kind |-> kind, id |-> id, addr |-> addr]

(* ------------------------ channels and handles ------------------------- *)

\* the writer side sends msg and is dropped
SendAndClose(ch, msg) ==
    [buf |-> Append(ch.buf, msg), txOpen |-> FALSE, log |-> Append(ch.log, msg)]

\* the writer side sends msg and stays
Send(ch, msg) ==
    [ch EXCEPT !.buf = Append(@, msg), !.log = Append(@, msg)]

\* the writer side is dropped
CloseTx(ch) == [ch EXCEPT !.txOpen = FALSE]

\* a poll that gives up the swarm reference once the result is there
GetQuery_poll_takes_swarm(h) ==
    IF h.rx.buf # <<>>
    THEN [st |-> "ready", val |-> Head(h.rx.buf).res,
          self |-> [h EXCEPT !.rx.buf = Tail(@), !.swarm = FALSE]]
    ELSE IF ~h.rx.txOpen
    THEN [st |-> "ready", val |-> Canceled, self |-> [h EXCEPT !.swarm = FALSE]]
    ELSE [st |-> "pending", val |-> NoRes, self |-> h]

\* Future for GetQuery: one poll of the one-shot channel.
\* [st, val, self]: Ready(val) or Pending, and the handle after the poll
GetQuery_poll(h) ==
    IF h.rx.buf # <<>>
    THEN [st |-> "ready", val |-> Head(h.rx.buf).res,
          self |-> [h EXCEPT !.rx.buf = Tail(@)]]
    ELSE IF ~h.rx.txOpen
    THEN [st |-> "ready", val |-> Canceled, self |-> h]
    ELSE [st |-> "pending", val |-> NoRes, self |-> h]

\* a poll that resolves with the first event of the channel, whatever it is
SyncQuery_poll_first_event(h) ==
    IF h.rx.buf # <<>>
    THEN [st |-> "ready", val |-> Head(h.rx.buf).res,
          self |-> [h EXCEPT !.rx.buf = Tail(@)]]
    ELSE IF ~h.rx.txOpen
    THEN [st |-> "loop", val |-> NoRes, self |-> h]
    ELSE [st |-> "pending", val |-> NoRes, self |-> h]

\* Future for SyncQuery: the loop over rx.poll_next. Ready(Some(Complete(r)))
\* returns r; every other Ready, the None of a closed channel included,
\* continues the loop ("loop": the poll never returns); Pending returns
RECURSIVE SyncQuery_poll(_)
SyncQuery_poll(h) ==
    IF h.rx.buf # <<>>
    THEN IF Head(h.rx.buf).ev = "Complete"
         THEN [st |-> "ready", val |-> Head(h.rx.buf).res,
               self |-> [h EXCEPT !.rx.buf = Tail(@)]]
         ELSE SyncQuery_poll([h EXCEPT !.rx.buf = Tail(@),
                                       !.dropped = Append(@, Head(h.rx.buf))])
    ELSE IF ~h.rx.txOpen
    THEN [st |-> "loop", val |-> NoRes, self |-> h]
    ELSE [st |-> "pending", val |-> NoRes, self |-> h]

\* Stream for SyncQuery: one rx.poll_next. [st, item, self]: Ready(Some(item)),
\* Ready(None) ("none") of a channel that is empty and closed, or Pending
SyncQuery_poll_next(h) ==
    IF h.rx.buf # <<>>
    THEN [st |-> "some", item |-> Head(h.rx.buf),
          self |-> [h EXCEPT !.rx.buf = Tail(@),
                             !.seen = Append(@, Head(h.rx.buf))]]
    ELSE IF ~h.rx.txOpen
    THEN [st |-> "none", item |-> Complete(NoRes),
          self |-> [h EXCEPT !.ended = TRUE]]
    ELSE [st |-> "pending", item |-> Complete(NoRes), self |-> h]

\* SyncQuery::ready(res)
SyncQuery_ready(res) ==
    [kind |-> "SyncQuery", swarm |-> FALSE, id |-> None,
     rx |-> SendAndClose(OpenChan, Complete(res)), done |-> FALSE, out |-> NoRes,
     dropped |-> <<>>, seen |-> <<>>, ended |-> FALSE]

\* the struct literal that ends get and sync
QueryHandle(kind, id, rx) ==
    [kind |-> kind, swarm |-> TRUE, id |-> id, rx |-> rx, done |-> FALSE,
     out |-> NoRes, dropped |-> <<>>, seen |-> <<>>, ended |-> FALSE]

(* ----------------- the behaviour, as the specification has it ---------- *)

\* the QueryId the behaviour hands out after id
Behaviour_next_id(id) == id + 1

\* a submission method: allocates the QueryId and stores the writer
Behaviour_submit(qs, id, kind) == (id :> kind) @@ qs

\* cancel(id): drops the query of that id, if any
Behaviour_cancel(qs, id) == [q \in DOMAIN qs \ {id} |-> qs[q]]

\* the message a finished query of this kind delivers
Behaviour_result(kind, res) ==
    IF kind = "sync" THEN Complete(res) ELSE [ev |-> "Result", res |-> res]

(* ------------------------------ the mutex ------------------------------ *)

\* a lock that never waits
Mutex_never_waits == TRUE

\* parking_lot::Mutex::lock returns once nobody holds the mutex
Mutex_free == holders = {}

(* ----------------------------- the waker ------------------------------- *)

\* AtomicWaker::wake: takes the registered waker, if any, and wakes its task
AtomicWaker_wake ==
    IF registered
    THEN registered' = FALSE /\ notified' = TRUE
    ELSE UNCHANGED <<registered, notified>>

\* the address without its terminal peer component
strip_peer(addr) == [addr EXCEPT !.p2p = NoPeer]

\* peers::normalize_addr(addr, peer): the terminal peer component, if any, is
\* verified to equal peer, and stripped when it does not; the component is
\* mandatory for a user-facing address, so that an address without it (passed
\* so, or stripped) gets the one of peer appended
normalize_addr(addr, peer) ==
    LET bare == IF addr.p2p # NoPeer /\ addr.p2p # peer
                THEN strip_peer(addr) ELSE addr
    IN  IF bare.p2p = NoPeer THEN [bare EXCEPT !.p2p = peer] ELSE bare

\* AddressScore::Infinite
Infinite == "Infinite"

\* AddressScore::Finite(_): the score of an address that peers report
Finite == "Finite"

\* Swarm::add_external_address(addr, score), as the facade calls it
Swarm_add_external_address(addrs, addr, score) ==
    addrs \cup {[addr |-> addr, score |-> score]}

\* the records the swarm may drop from its external addresses when it makes
\* room: a record of score Infinite is never one of them
Swarm_evictable(addrs) == {r \in addrs : r.score # Infinite}

(* ------------------------- a caller's call ----------------------------- *)

At(c, step) == frame[c].rest # <<>> /\ Head(frame[c].rest) = step

Advance(f) == [f EXCEPT !.rest = Tail(@)]

\* submissions that callers have begun and not yet made
PendingSubmits ==
    Cardinality({c \in Callers : HasStep(frame[c].rest, Submits)})

\* listeners that callers have begun to start and not yet started
PendingListens ==
    Cardinality({c \in Callers : HasStep(frame[c].rest, {"swarm_listen_on"})})

CanStart(c) == frame[c].m = "idle" /\ c \notin panicked

\* a caller begins a call of facade method m
Invoke(c, m, arg) ==
    /\ CanStart(c)
    /\ svcLive
    /\ m \in HandleQueries => handle[c].kind = "none"
    /\ HasStep(Program(m, arg), Submits) => nextId + PendingSubmits <= MaxQueries
    /\ HasStep(Program(m, arg), {"swarm_events"}) => ~stream[c].open
    /\ HasStep(Program(m, arg), {"swarm_listen_on"})
          => nextListener + PendingListens <= MaxListeners
    /\ frame' = [frame EXCEPT ![c] =
          [Idle EXCEPT !.m = Rep(m, arg), !.arg = arg, !.rest = Program(m, arg),
                       !.sent = arg.addr,
                       !.pre = IF m = "external_addresses" THEN returned ELSE {}]]
    /\ UNCHANGED <<idVars, outerVars, svcPeer, holders, handle, swarmVars, returned, dpc,
                   wakeVars, panicked>>

\* a caller drops the query handle it owns
InvokeDrop(c) ==
    /\ CanStart(c)
    /\ handle[c].kind # "none"
    /\ frame' = [frame EXCEPT ![c] =
          IF handle[c].kind = "GetQuery"
          THEN [Idle EXCEPT !.m = "GetQuery::drop", !.rest = GetQuery_drop]
          ELSE [Idle EXCEPT !.m = "SyncQuery::drop",
                            !.rest = SyncQuery_drop(handle[c].id)]]
    /\ UNCHANGED <<idVars, outerVars, svcPeer, holders, handle, swarmVars, returned, dpc,
                   wakeVars, panicked>>

StepLock(c) ==
    /\ At(c, "lock")
    /\ Mutex_free
    /\ holders' = holders \cup {c}
    /\ frame' = [frame EXCEPT ![c] = Advance(@)]
    /\ UNCHANGED <<idVars, outerVars, svcPeer, handle, swarmVars, returned, dpc, wakeVars,
                   panicked>>

StepUnlock(c) ==
    /\ At(c, "unlock")
    /\ holders' = holders \ {c}
    /\ frame' = [frame EXCEPT ![c] = Advance(@)]
    /\ UNCHANGED <<idVars, outerVars, svcPeer, handle, swarmVars, returned, dpc, wakeVars,
                   panicked>>

StepWake(c) ==
    /\ At(c, "wake")
    /\ AtomicWaker_wake
    /\ frame' = [frame EXCEPT ![c] = [Advance(@) EXCEPT !.woke = TRUE]]
    /\ UNCHANGED <<idVars, outerVars, svcPeer, holders, handle, swarmVars, returned, dpc,
                   panicked>>

StepRead(c) ==
    /\ At(c, "read")
    /\ frame' = [frame EXCEPT ![c] = Advance(@)]
    /\ UNCHANGED <<idVars, outerVars, svcPeer, holders, handle, swarmVars, returned, dpc,
                   wakeVars, panicked>>

\* swarm.external_addresses().cloned().collect()
StepReadExternal(c) ==
    /\ At(c, "read_external_addresses")
    /\ frame' = [frame EXCEPT ![c] =
          [Advance(@) EXCEPT !.snap = {r.addr : r \in extAddrs}]]
    /\ UNCHANGED <<idVars, outerVars, svcPeer, holders, handle, swarmVars, returned, dpc,
                   wakeVars, panicked>>

StepPeerId(c) ==
    /\ At(c, "peer_id")
    /\ frame' = [frame EXCEPT ![c] = [Advance(@) EXCEPT !.peer = svcPeer]]
    /\ UNCHANGED <<idVars, outerVars, svcPeer, holders, handle, swarmVars, returned, dpc,
                   wakeVars, panicked>>

\* swarm.behaviour_mut().swarm_events(): a new subscription to the swarm's
\* events, empty at first
StepEvents(c) ==
    /\ At(c, "swarm_events")
    /\ stream' = [stream EXCEPT ![c] =
          [@ EXCEPT !.open = TRUE, !.buf = <<>>, !.hist = <<>>, !.out = <<>>,
                    !.ended = FALSE]]
    /\ frame' = [frame EXCEPT ![c] = Advance(@)]
    /\ UNCHANGED <<idVars, lsn, nextListener, events, clones, orbitVars, vo,
                   svcPeer, holders, handle, swarmVars, returned, dpc, wakeVars,
                   panicked>>

\* let listener = swarm.listen_on(addr)?: the swarm creates the listener and
\* returns its id; the listener reports its addresses when the swarm is polled
StepListenOn(c) ==
    /\ At(c, "swarm_listen_on")
    /\ lsn' = (nextListener :> [st |-> "starting", addr |-> frame[c].arg.addr])
               @@ lsn
    /\ nextListener' = nextListener + 1
    /\ stream' = [stream EXCEPT ![c] =
          [@ EXCEPT !.listener = nextListener, !.asked = frame[c].arg.addr]]
    /\ unpolled' = TRUE
    /\ frame' = [frame EXCEPT ![c] =
          [Advance(@) EXCEPT !.applied = TRUE, !.woke = FALSE]]
    /\ UNCHANGED <<idVars, events, clones, orbitVars, vo, svcPeer, holders,
                   handle, queries, nextId, work, extAddrs, returned, dpc,
                   wakeVars, panicked>>

\* the mutating call of a method on the swarm or the behaviour
StepApply(c) ==
    /\ At(c, "apply")
    /\ work' = Min(work + 1, MaxWork)
    /\ unpolled' = TRUE
    /\ frame' = [frame EXCEPT ![c] =
          [Advance(@) EXCEPT !.applied = TRUE, !.woke = FALSE]]
    /\ UNCHANGED <<idVars, outerVars, svcPeer, holders, handle, queries, nextId, extAddrs,
                   returned, dpc, wakeVars, panicked>>

\* peers::normalize_addr(&mut addr, &self.local_peer_id()), with the peer id
\* that the call of local_peer_id returned
StepNormalize(c) ==
    /\ At(c, "normalize_addr")
    /\ frame' = [frame EXCEPT ![c] =
          [Advance(@) EXCEPT
             !.sent = normalize_addr(frame[c].sent, frame[c].peer)]]
    /\ UNCHANGED <<idVars, outerVars, svcPeer, holders, handle, swarmVars, returned, dpc,
                   wakeVars, panicked>>

\* swarm.add_external_address(addr, AddressScore::Infinite), under the lock
StepAddExternal(c) ==
    /\ At(c, "add_external_address")
    /\ extAddrs' =
          Swarm_add_external_address(extAddrs, frame[c].sent, Infinite)
    /\ frame' = [frame EXCEPT ![c] =
          [Advance(@) EXCEPT !.applied = TRUE, !.woke = FALSE]]
    /\ work' = Min(work + 1, MaxWork)
    /\ unpolled' = TRUE
    /\ UNCHANGED <<idVars, outerVars, svcPeer, holders, handle, queries, nextId, returned,
                   dpc, wakeVars, panicked>>

\* behaviour_mut().<query>(..): the behaviour allocates the QueryId and
\* returns the channel's reader
StepSubmit(c) ==
    /\ \E s \in Submits : At(c, s)
    /\ queries' = Behaviour_submit(queries, nextId,
          IF At(c, "submit_get") THEN "get"
          ELSE IF At(c, "submit_sync") THEN "sync" ELSE "oneshot")
    /\ nextId' = Behaviour_next_id(nextId)
    /\ work' = Min(work + 1, MaxWork)
    /\ unpolled' = TRUE
    /\ frame' = [frame EXCEPT ![c] =
          [Advance(@) EXCEPT !.applied = TRUE, !.woke = FALSE,
                             !.id = nextId, !.rx = OpenChan]]
    /\ UNCHANGED <<idVars, outerVars, svcPeer, holders, handle, extAddrs, returned, dpc,
                   wakeVars, panicked>>

\* GetQuery { swarm: Some(..), id, rx } and SyncQuery { .., id: Some(id), rx }
StepHandle(c) ==
    /\ At(c, "GetQuery") \/ At(c, "SyncQuery")
    /\ handle' = [handle EXCEPT ![c] =
          QueryHandle(Head(frame[c].rest), frame[c].id, frame[c].rx)]
    /\ frame' = [frame EXCEPT ![c] =
          [Advance(@) EXCEPT !.id = None, !.rx = NoChan]]
    /\ UNCHANGED <<idVars, outerVars, svcPeer, holders, swarmVars, returned, dpc, wakeVars,
                   panicked>>

\* the two short-circuits of sync
StepReady(c) ==
    /\ At(c, "ready_ok") \/ At(c, "ready_err")
    /\ handle' = [handle EXCEPT ![c] =
          IF At(c, "ready_ok") THEN SyncQuery_ready(OkRes)
          ELSE SyncQuery_ready(sync_not_found(frame[c].arg.missing))]
    /\ frame' = [frame EXCEPT ![c] = Advance(@)]
    /\ UNCHANGED <<idVars, outerVars, svcPeer, holders, swarmVars, returned, dpc, wakeVars,
                   panicked>>

\* rx.await??: resumes with the result sent, or Canceled once the writer is gone
StepAwait(c) ==
    /\ At(c, "await")
    /\ frame[c].rx.buf # <<>> \/ ~frame[c].rx.txOpen
    /\ frame' = [frame EXCEPT ![c] =
          [Advance(@) EXCEPT
             !.res = IF frame[c].rx.buf # <<>> THEN Head(frame[c].rx.buf).res
                     ELSE Canceled,
             !.id = None, !.rx = NoChan]]
    /\ UNCHANGED <<idVars, outerVars, svcPeer, holders, handle, swarmVars, returned, dpc,
                   wakeVars, panicked>>

\* the caller drops the future of a one-shot query while it is suspended at
\* rx.await: the locals of the async fn are dropped, rx among them; the
\* future holds no QueryId and has no Drop of its own
DropFuture(c) ==
    /\ At(c, "await")
    /\ frame[c].m \in Reps(OneShotQueries)
    /\ frame' = [frame EXCEPT ![c] = Idle]
    /\ UNCHANGED <<idVars, outerVars, svcPeer, holders, handle, swarmVars, returned,
                   dpc, wakeVars, panicked>>

\* self.swarm.take().unwrap(): panics on a handle without a swarm
StepTakeSwarm(c) ==
    /\ At(c, "take_swarm")
    /\ IF handle[c].swarm
       THEN /\ handle' = [handle EXCEPT ![c].swarm = FALSE]
            /\ frame' = [frame EXCEPT ![c] = Advance(@)]
            /\ UNCHANGED panicked
       ELSE /\ panicked' = panicked \cup {c}
            /\ frame' = [frame EXCEPT ![c] = [@ EXCEPT !.rest = <<>>]]
            /\ UNCHANGED handle
    /\ UNCHANGED <<idVars, outerVars, svcPeer, holders, swarmVars, returned, dpc, wakeVars>>

\* swarm.behaviour_mut().cancel(id) of a drop
StepCancel(c) ==
    /\ At(c, "cancel")
    /\ queries' = Behaviour_cancel(queries, handle[c].id)
    /\ handle' = [handle EXCEPT ![c].rx = CloseTx(@)]
    /\ frame' = [frame EXCEPT ![c] =
          [Advance(@) EXCEPT !.hit = handle[c].id \in DOMAIN queries]]
    /\ UNCHANGED <<idVars, outerVars, svcPeer, holders, nextId, work, unpolled, extAddrs,
                   returned, dpc, wakeVars, panicked>>

\* the call is over: the method returns (a drop ends the handle; the raw event
\* stream of swarm_events, and the stream of a failed listen_on, are dropped)
Return(c) ==
    /\ frame[c].m \notin {"idle", "poll-loops"}
    /\ frame[c].rest = <<>>
    /\ c \notin panicked
    /\ returned' =
          IF frame[c].m = "add_external_address"
          THEN returned \cup {frame[c].sent}
          ELSE returned
    /\ handle' = [handle EXCEPT ![c] =
          IF frame[c].m \in DropMethods THEN NoHandle ELSE @]
    /\ stream' = [stream EXCEPT ![c] =
          IF @.listener = None THEN NoStream ELSE @]
    /\ frame' = [frame EXCEPT ![c] = Idle]
    /\ UNCHANGED <<idVars, lsn, nextListener, events, clones, orbitVars, vo,
                   svcPeer, holders, swarmVars, dpc, wakeVars, panicked>>

\* the owner polls its query handle as a future
Poll(c) ==
    /\ CanStart(c)
    /\ handle[c].kind # "none"
    /\ ~handle[c].done
    /\ LET r == IF handle[c].kind = "GetQuery" THEN GetQuery_poll(handle[c])
                ELSE SyncQuery_poll(handle[c])
       IN /\ r.st # "pending" \/ r.self # handle[c]
          /\ handle' = [handle EXCEPT ![c] =
                IF r.st = "ready"
                THEN [r.self EXCEPT !.done = TRUE, !.out = r.val]
                ELSE r.self]
          /\ frame' = [frame EXCEPT ![c] =
                IF r.st = "loop" THEN [Idle EXCEPT !.m = "poll-loops"] ELSE @]
    /\ UNCHANGED <<idVars, outerVars, svcPeer, holders, swarmVars, returned, dpc, wakeVars,
                   panicked>>

\* the owner polls its SyncQuery as a stream
PollNext(c) ==
    /\ CanStart(c)
    /\ handle[c].kind = "SyncQuery"
    /\ ~handle[c].ended
    /\ LET r == SyncQuery_poll_next(handle[c])
       IN /\ r.st # "pending"
          /\ handle' = [handle EXCEPT ![c] = r.self]
    /\ UNCHANGED <<idVars, outerVars, svcPeer, holders, frame, swarmVars, returned,
                   dpc, wakeVars, panicked>>

\* the owner polls its listen_on stream: the adapter takes the next event of
\* the subscription through take_while and filter_map
StreamNext(c) ==
    /\ stream[c].open
    /\ stream[c].listener # None
    /\ frame[c].m = "idle"
    /\ ~stream[c].ended
    /\ stream[c].buf # <<>>
    /\ LET ev == Head(stream[c].buf)
           st == [stream[c] EXCEPT !.buf = Tail(@), !.hist = Append(@, ev)]
           item == filter_map(ev, stream[c].listener)
       IN stream' = [stream EXCEPT ![c] =
             IF ~take_while(ev, stream[c].listener)
             THEN [st EXCEPT !.ended = TRUE]
             ELSE IF item.some
             THEN [st EXCEPT !.out =
                     Append(@, [kind |-> item.kind, addr |-> item.addr,
                                src |-> Len(st.hist)])]
             ELSE st]
    /\ UNCHANGED <<idVars, lsn, nextListener, events, clones, orbitVars, vo,
                   svcPeer, holders, frame, handle, swarmVars, returned, dpc,
                   wakeVars, panicked>>

\* the owner drops its listen_on stream
DropStream(c) ==
    /\ stream[c].open
    /\ stream[c].listener # None
    /\ frame[c].m = "idle"
    /\ stream' = [stream EXCEPT ![c] = NoStream]
    /\ UNCHANGED <<idVars, lsn, nextListener, events, clones, orbitVars, vo,
                   svcPeer, holders, frame, handle, swarmVars, returned, dpc,
                   wakeVars, panicked>>

(* --------------------------- the driver task --------------------------- *)
(* future::poll_fn(move |cx| { waker.register(cx.waker());                 *)
(*     let mut guard = swarm.lock();                                       *)
(*     while swarm.poll_next(cx).is_ready() {}                             *)
(*     Poll::Pending })                                                    *)

\* the executor polls the task once it has been woken
DriverStart ==
    /\ dpc = "parked"
    /\ svcLive
    /\ notified
    /\ notified' = FALSE
    /\ dpc' = "register"
    /\ UNCHANGED <<idVars, outerVars, svcPeer, holders, frame, handle, swarmVars, returned,
                   registered, panicked>>

\* waker.register(cx.waker())
DriverRegister ==
    /\ dpc = "register"
    /\ registered' = TRUE
    /\ dpc' = "lock"
    /\ UNCHANGED <<idVars, outerVars, svcPeer, holders, frame, handle, swarmVars, returned,
                   notified, panicked>>

\* swarm.lock()
DriverLock ==
    /\ dpc = "lock"
    /\ Mutex_free
    /\ holders' = holders \cup {Driver}
    /\ dpc' = "drain"
    /\ UNCHANGED <<idVars, outerVars, svcPeer, frame, handle, swarmVars, returned, wakeVars,
                   panicked>>

\* the message of a finished query reaches the reader of its channel
Deliver(f, q, msg) ==
    [c \in Callers |->
        IF q # None /\ f[c].id = q
        THEN [f[c] EXCEPT !.rx = SendAndClose(@, msg)]
        ELSE f[c]]

\* swarm.poll_next(cx) is Ready: the swarm handled one event, which may have
\* finished a query q with result res (q = None: no query finished)
DriverPollReady(q, res) ==
    /\ dpc = "drain"
    /\ work > 0
    /\ work' = work - 1
    /\ unpolled' = FALSE
    /\ IF q = None
       THEN UNCHANGED <<queries, frame, handle>>
       ELSE /\ queries' = [x \in DOMAIN queries \ {q} |-> queries[x]]
            /\ frame' = Deliver(frame, q, Behaviour_result(queries[q], res))
            /\ handle' = Deliver(handle, q, Behaviour_result(queries[q], res))
    /\ UNCHANGED <<idVars, outerVars, svcPeer, holders, nextId, extAddrs, returned, dpc,
                   wakeVars, panicked>>

\* swarm.poll_next(cx) is Ready: the swarm handled the report of a peer that
\* observed the node at address a, and keeps it with a finite score
DriverPollObserved(a) ==
    /\ dpc = "drain"
    /\ work > 0
    /\ work' = work - 1
    /\ unpolled' = FALSE
    /\ extAddrs' = Swarm_add_external_address(extAddrs, a, Finite)
    /\ UNCHANGED <<idVars, outerVars, svcPeer, holders, frame, handle, queries,
                   nextId, returned, dpc, wakeVars, panicked>>

\* swarm.poll_next(cx) is Ready: the swarm handled one event and made room in
\* its external addresses by dropping the record r
DriverPollEvict(r) ==
    /\ dpc = "drain"
    /\ work > 0
    /\ r \in Swarm_evictable(extAddrs)
    /\ work' = work - 1
    /\ unpolled' = FALSE
    /\ extAddrs' = extAddrs \ {r}
    /\ UNCHANGED <<idVars, outerVars, svcPeer, holders, frame, handle, queries,
                   nextId, returned, dpc, wakeVars, panicked>>

\* swarm.poll_next(cx) is Ready: the swarm handled one event, with which the
\* sync query q made progress
DriverPollProgress(q) ==
    /\ dpc = "drain"
    /\ work > 0
    /\ q \in DOMAIN queries
    /\ queries[q] = "sync"
    /\ \E c \in Callers :
          /\ handle[c].id = q
          /\ Len(handle[c].rx.log) < MaxProgress
          /\ handle' = [handle EXCEPT ![c].rx =
                Send(@, Progress(MaxProgress - Len(handle[c].rx.log)))]
    /\ work' = work - 1
    /\ unpolled' = FALSE
    /\ UNCHANGED <<idVars, outerVars, svcPeer, holders, frame, queries, nextId,
                   extAddrs, returned, dpc, wakeVars, panicked>>

\* the swarm's events reach every subscription
Emit(ev) ==
    [c \in Callers |->
        IF stream[c].open
        THEN [stream[c] EXCEPT !.buf = Append(@, ev)]
        ELSE stream[c]]

\* swarm.poll_next(cx) is Ready: listener l reports its first address, which
\* reaches the subscribers with the local peer suffix appended
DriverPollNewAddr(l) ==
    /\ dpc = "drain"
    /\ l \in DOMAIN lsn
    /\ lsn[l].st \in {"starting", "ready"}
    /\ lsn' = [lsn EXCEPT ![l].st = "listening"]
    /\ stream' = Emit(SwarmEvent("NewListenAddr", l,
                                 normalize_addr(lsn[l].addr, svcPeer)))
    /\ unpolled' = FALSE
    /\ UNCHANGED <<idVars, nextListener, events, clones, orbitVars, vo, svcPeer,
                   holders, frame, handle, queries, nextId, work, extAddrs,
                   returned, dpc, wakeVars, panicked>>

\* the events a listener in state st can produce next, with the state they
\* leave it in
ListenerMoves(l) ==
    CASE lsn[l].st = "listening" ->
           {[ev |-> SwarmEvent("ExpiredListenAddr", l,
                               normalize_addr(lsn[l].addr, svcPeer)),
             st |-> "expired"],
            [ev |-> SwarmEvent("ListenerClosed", l, NoAddr), st |-> "closed"]}
      [] lsn[l].st = "expired" ->
           {[ev |-> SwarmEvent("NewListenAddr", l,
                               normalize_addr(lsn[l].addr, svcPeer)),
             st |-> "listening"],
            [ev |-> SwarmEvent("ListenerClosed", l, NoAddr), st |-> "closed"]}
      [] OTHER -> {}

\* swarm.poll_next(cx) is Ready: a listener that has reported an address
\* reports a later event
DriverPollListener(l) ==
    /\ dpc = "drain"
    /\ events < MaxEvents
    /\ l \in DOMAIN lsn
    /\ \E mv \in ListenerMoves(l) :
          /\ lsn' = [lsn EXCEPT ![l].st = mv.st]
          /\ stream' = Emit(mv.ev)
    /\ events' = events + 1
    /\ unpolled' = FALSE
    /\ UNCHANGED <<idVars, nextListener, clones, orbitVars, vo, svcPeer, holders,
                   frame, handle, queries, nextId, work, extAddrs, returned, dpc,
                   wakeVars, panicked>>

\* swarm.poll_next(cx) is Ready: an event that belongs to no listener
DriverPollDiscovered ==
    /\ dpc = "drain"
    /\ events < MaxEvents
    /\ stream' = Emit(SwarmEvent("Discovered", None, NoAddr))
    /\ events' = events + 1
    /\ unpolled' = FALSE
    /\ UNCHANGED <<idVars, lsn, nextListener, clones, orbitVars, vo, svcPeer,
                   holders, frame, handle, queries, nextId, work, extAddrs,
                   returned, dpc, wakeVars, panicked>>

\* a drain that ends whether or not the swarm has something ready
DriverPoll_ends_early ==
    /\ dpc = "drain"
    /\ unpolled' = FALSE
    /\ dpc' = "return"
    /\ UNCHANGED <<idVars, outerVars, svcPeer, holders, frame, handle, queries,
                   nextId, work, extAddrs, returned, wakeVars, panicked>>

\* swarm.poll_next(cx) is Pending: the loop ends. A listener polled for the
\* first time without an address yet keeps the task's waker
DriverPollPending ==
    /\ dpc = "drain"
    /\ work = 0
    /\ \A l \in DOMAIN lsn : lsn[l].st # "ready"
    /\ lsn' = [l \in DOMAIN lsn |->
          IF lsn[l].st = "starting" THEN [lsn[l] EXCEPT !.st = "pending"]
          ELSE lsn[l]]
    /\ unpolled' = FALSE
    /\ dpc' = "return"
    /\ UNCHANGED <<idVars, nextListener, stream, events, clones, orbitVars, vo,
                   svcPeer, holders, frame, handle, queries, nextId, work,
                   extAddrs, returned, wakeVars, panicked>>

\* the transport has the first address of a listener the driver polled: it
\* wakes the task through the waker the poll left with it
TransportReport(l) ==
    /\ l \in DOMAIN lsn
    /\ lsn[l].st = "pending"
    /\ lsn' = [lsn EXCEPT ![l].st = "ready"]
    /\ notified' = TRUE
    /\ UNCHANGED <<idVars, nextListener, stream, events, clones, orbitVars, vo,
                   svcPeer, holders, frame, handle, swarmVars, returned, dpc,
                   registered, panicked>>

\* a poll that returns Pending with the guard kept alive
DriverPark_guard_kept ==
    /\ dpc = "return"
    /\ dpc' = "parked"
    /\ UNCHANGED <<idVars, outerVars, svcPeer, holders, frame, handle, swarmVars,
                   returned, wakeVars, panicked>>

\* Poll::Pending: the guard is dropped as the closure returns
DriverPark ==
    /\ dpc = "return"
    /\ holders' = holders \ {Driver}
    /\ dpc' = "parked"
    /\ UNCHANGED <<idVars, outerVars, svcPeer, frame, handle, swarmVars, returned, wakeVars,
                   panicked>>

\* #[derive(Clone)]: a clone of the NetworkService, with its own Arc of the
\* swarm and of the task's JoinHandle
CloneService ==
    /\ svcLive
    /\ clones < MaxClones
    /\ clones' = clones + 1
    /\ UNCHANGED <<idVars, listenVars, orbitVars, vo, svcPeer, holders, frame,
                   handle, swarmVars, returned, dpc, wakeVars, panicked>>

\* a clone of the NetworkService is dropped: its fields go, its Arc of the
\* swarm among them, and with the last clone the JoinHandle of the task. The
\* facade's methods borrow the service (&self), so the last clone is not
\* dropped during one; a query handle borrows nothing, and its poll and its
\* drop can be under way
DropService ==
    /\ svcLive
    /\ clones > 1 \/ \A c \in Callers : frame[c].m \notin Methods
    /\ clones' = clones - 1
    /\ UNCHANGED <<idVars, listenVars, orbitVars, vo, svcPeer, holders, frame,
                   handle, swarmVars, returned, dpc, wakeVars, panicked>>

\* the task whose JoinHandle was dropped is aborted where it is parked: its
\* closure is dropped, and with it the task's Arc of the swarm
DriverAbort ==
    /\ ~svcLive
    /\ dpc = "parked"
    /\ dpc' = "aborted"
    /\ UNCHANGED <<idVars, outerVars, svcPeer, holders, frame, handle, swarmVars,
                   returned, wakeVars, panicked>>

\* a drop has taken the handle's Arc into its local `swarm`, which lives to
\* the end of the drop; the drop of a SyncQuery without id takes nothing
DropHoldsSwarm(c) ==
    /\ frame[c].m \in DropMethods
    /\ handle[c].id # None
    /\ ~handle[c].swarm
    /\ ~At(c, "take_swarm")
    /\ c \notin panicked

\* the strong references to Arc<Mutex<Swarm>>: one in every clone of the
\* service, the task's, one in every handle that has not given it up, and the
\* local of a running drop
SwarmRefs ==
    clones
    + (IF dpc # "aborted" THEN 1 ELSE 0)
    + Cardinality({c \in Callers : handle[c].swarm})
    + Cardinality({c \in Callers : DropHoldsSwarm(c)})

\* the network has something for the swarm: its I/O wakes the task
NetworkEvent ==
    /\ work < MaxWork
    /\ work' = work + 1
    /\ notified' = TRUE
    /\ UNCHANGED <<idVars, outerVars, svcPeer, holders, frame, handle, queries, nextId,
                   unpolled, extAddrs, returned, dpc, registered, panicked>>

(* ---------------------------- construction ----------------------------- *)

\* a call of NetworkService::new: its db_path, the key generate_ed25519
\* draws in it, where it is (read, write, behaviour, swarm, done), its
\* result (Ok, or the `?` that returned), its peer id, whether it generated
\* its key, and the calls that had returned when it was made
Construction(d, k) ==
    [dir |-> d, key |-> k, pc |-> "read", res |-> "-", peer |-> NoPeer,
     generated |-> FALSE, after |-> {}]

\* a call that generated k and has returned Ok
Built(d, k) ==
    [Construction(d, k) EXCEPT !.pc = "done", !.res = "Ok",
                               !.peer = into_peer_id(generate_ed25519(k)),
                               !.generated = TRUE]

\* the key the n-th call of a run draws: no two draws give the same key
FreshKey(n) == ToString(n)

NewAt(i, pc) == i \in 1..Len(built) /\ built[i].pc = pc

NewEnd(b, res) == [b EXCEPT !.pc = "done", !.res = res]

NewUnchanged ==
    UNCHANGED <<outerVars, svcPeer, holders, frame, handle, swarmVars,
                returned, dpc, wakeVars, panicked>>

\* NetworkService::new(store, executor, relay_addr, db_path = d) is called
New(d) ==
    /\ Len(built) < MaxNew
    /\ built' = Append(built,
          [Construction(d, FreshKey(Len(built) + 1)) EXCEPT
              !.after = {i \in 1..Len(built) : built[i].pc = "done"}])
    /\ UNCHANGED kpFile
    /\ NewUnchanged

\* fs::read(db_path.join("kp")).await, and what follows without an await:
\* rsa_from_pkcs8(&mut bytes)? on the content read, or generate_ed25519 and
\* encode when the read failed, whether or not there is a file
NewReadKp(i, rd) ==
    /\ NewAt(i, "read")
    /\ LET b == built[i]
           r == new_identity(kpFile[b.dir], rd, b.key, "written")
       IN built' = [built EXCEPT ![i] =
             IF r.generated
             THEN [b EXCEPT !.pc = "write", !.generated = TRUE]
             ELSE IF r.ok THEN [b EXCEPT !.pc = "behaviour", !.peer = r.peer]
             ELSE NewEnd(b, "Err(rsa_from_pkcs8)")]
    /\ UNCHANGED kpFile
    /\ NewUnchanged

\* fs::write(db_path.join("kp"), bytes).await?: the file is written over
\* whatever is there by now; or the file system refuses and nothing is
\* touched; or the write fails after the file was created or emptied
NewWriteKp(i, w) ==
    /\ NewAt(i, "write")
    /\ LET b == built[i]
           r == new_identity(kpFile[b.dir], FALSE, b.key, w)
       IN /\ kpFile' = [kpFile EXCEPT ![b.dir] = r.file]
          /\ built' = [built EXCEPT ![i] =
                IF r.ok THEN [b EXCEPT !.pc = "behaviour", !.peer = r.peer]
                ELSE NewEnd(b, "Err(fs::write)")]
    /\ NewUnchanged

\* NetworkBackendBehaviour::new(store, kp.clone(), relay_behaviour).await?
NewBehaviour(i, ok) ==
    /\ NewAt(i, "behaviour")
    /\ built' = [built EXCEPT ![i] =
          IF ok THEN [@ EXCEPT !.pc = "swarm"]
          ELSE NewEnd(@, "Err(NetworkBackendBehaviour::new)")]
    /\ UNCHANGED kpFile
    /\ NewUnchanged

\* Dns::system(tcp)?, the swarm, its Arc, the task, Ok(Self { .. })
NewSwarm(i, ok) ==
    /\ NewAt(i, "swarm")
    /\ built' = [built EXCEPT ![i] =
          IF ok THEN NewEnd(@, "Ok") ELSE NewEnd(@, "Err(Dns::system)")]
    /\ UNCHANGED kpFile
    /\ NewUnchanged

(* ------------------------------- orbits -------------------------------- *)

Oids == {"o1", "o2"}
\* what distinguishes the arguments of one create_orbit call from another's
OrbitArgs == {"a1", "a2"}

NoFile == <<>>
\* what an fs::write that failed part-way left of a file
CutFile == <<"cut">>
\* path.join(oid): no such directory; by: the callers whose calls have
\* written to the directory
NoDir ==
    [exists |-> FALSE, metadata |-> NoFile, access_log |-> NoFile, kp |-> NoFile,
     by |-> {}]
NoOrbits == [o \in Oids |-> NoDir]

\* serde_json::to_vec_pretty(&md) of the OrbitMetadata the call builds
OrbitMetadata(oid, a) == <<"metadata", oid, a>>
\* kp.to_bytes()
Keypair_to_bytes(a) == <<"kp", a>>

\* an Orbit: the key and the metadata it was loaded from
NoOrbit == [kp |-> NoFile, md |-> NoFile]
\* the store of #[cached(size = 100, time = 60, result = true)]: the Ok
\* results of load_orbit_ by (oid, dir); dir is path.join(oid), one per oid
NoCache == [o \in Oids |-> NoOrbit]

\* the addresses md.hosts has for the local peer, by the `peers` the orbit
\* was created with
LocalHosts(a) == IF a = "a2" THEN <<"/l1">> ELSE <<>>

\* load_orbit_ from Ipfs::new(cfg).await on, one step for each resumption:
\* "start" with the result of Ipfs::new, and "listened" after the
\* .next().await of the listener of each address of the local peer
load_orbit_start(hosts) ==
    <<"start">> \o [i \in 1..Len(hosts) |-> "listened"]

\* load_orbit and load_orbit_ behind it: the directory check, the look-up in
\* the cache, the two reads (the steps from Ipfs::new on are known when the
\* metadata is read), and the entry made in the cache for an Ok result
load_orbit ==
    <<"dir_exists", "cache_get", "read_kp", "read_metadata", "cache_set">>

\* a create_orbit that does not look whether the directory exists
create_orbit_without_check ==
    <<"create_dir", "write_metadata", "write_access_log", "write_kp">>
    \o load_orbit

\* create_orbit: the statements after dir is computed
create_orbit ==
    <<"exists", "create_dir", "write_metadata", "write_access_log", "write_kp">>
    \o load_orbit

\* a caller's create_orbit or load_orbit call: its arguments, the statements
\* left, whether the directory existed at the call, what the call has written
\* so far, what it had written when it turned to loading the orbit, the orbit
\* it has loaded or was given (hit: by the cache), whether the dir.exists()
\* of create_orbit failed to see a directory that was there (stat = "err"),
\* and its result
NoOrbitCall ==
    [pc |-> "idle", fn |-> "-", oid |-> "-", a |-> "-", rest |-> <<>>,
     existed |-> FALSE, wrote |-> {}, loadedWith |-> {}, orbit |-> NoOrbit,
     hit |-> FALSE, stat |-> "-", res |-> "-"]

(* ----------------------------- verify_oid ------------------------------ *)

\* the characters uris are made of
Chars == {";", "=", "a"}
UriStrings == UNION {[1..n -> Chars] : n \in 0..MaxUri}

\* the multicodec code of raw: `oid.codec() == 0x55`
RawCodec == 85
\* raw and dag-cbor
Codecs == {RawCodec, 113}
\* the codes of multihash's Code table: sha2-256 and -512 (0x12, 0x13),
\* sha3-512, -384, -256 and -224 (0x14..0x17), keccak-224 to -512
\* (0x1a..0x1d), blake3-256 (0x1e), blake2b-256 and -512 (0xb220, 0xb240),
\* blake2s-128 and -256 (0xb250, 0xb260)
Code_table == (18..23) \cup (26..30) \cup {45600, 45632, 45648, 45664}
\* the codes of the oids checked: sha2-256, blake2b-256 (the code of the
\* oids in use), and one that is no hash function's
HashCodes == {18, 45600, 1}
\* Code::try_from(code): Err for a code that is not in the table
Code_try_from(code) == [ok |-> code \in Code_table, code |-> code]
\* Code::digest(bytes): the multihash of bytes under code
Code_digest(code, bytes) == [code |-> code, digest |-> <<"H", code, bytes>>]

Oid(codec, hash) == [codec |-> codec, hash |-> hash]
\* the oids verify_oid is called with, beside uri: made from uri or from
\* another string, under a code Code knows or not, with either codec
OidsFor(uri) ==
    {Oid(codec, Code_digest(code, pre)) :
        codec \in Codecs, code \in HashCodes, pre \in {uri, <<"a">>}}

\* str::find(ch): the index of the first ch, 0 for None
str_find(str, ch) ==
    IF \E i \in 1..Len(str) : str[i] = ch
    THEN CHOOSE i \in 1..Len(str) :
            str[i] = ch /\ \A j \in 1..(i - 1) : str[j] # ch
    ELSE 0

\* str::split(sep), collected
RECURSIVE str_split(_, _)
str_split(str, sep) ==
    LET i == str_find(str, sep) IN
    IF i = 0 THEN <<str>>
    ELSE <<SubSeq(str, 1, i - 1)>> \o str_split(SubSeq(str, i + 1, Len(str)), sep)

\* HashMap::insert
HashMap_insert(acc, key, value) == (key :> value) @@ acc

\* the fold of get_params over the segments
RECURSIVE get_params_fold(_, _)
get_params_fold(pairs, acc) ==
    IF pairs = <<>> THEN acc
    ELSE LET ps == str_split(Head(pairs), "=") IN
         get_params_fold(Tail(pairs),
             IF Len(ps) = 2 THEN HashMap_insert(acc, ps[1], ps[2]) ELSE acc)

get_params(matrix_params) == get_params_fold(str_split(matrix_params, ";"), <<>>)

VoErr == [ok |-> FALSE, method |-> <<>>, params |-> <<>>]

\* a verify_oid that does not look at the codec
verify_oid_any_codec(oid, uri_str) ==
    IF /\ Code_try_from(oid.hash.code).ok
       /\ Code_digest(oid.hash.code, uri_str) = oid.hash
    THEN LET semi == str_find(uri_str, ";")
             first_sc == IF semi = 0 THEN Len(uri_str) + 1 ELSE semi
         IN [ok |-> TRUE,
             method |-> SubSeq(uri_str, 1, first_sc - 1),
             params |-> get_params(SubSeq(uri_str, first_sc, Len(uri_str)))]
    ELSE VoErr

\* verify_oid(oid, uri_str); first_sc is one more than the code's, indices
\* here starting at 1
verify_oid(oid, uri_str) ==
    IF /\ Code_try_from(oid.hash.code).ok
       /\ Code_digest(oid.hash.code, uri_str) = oid.hash
       /\ oid.codec = RawCodec
    THEN LET semi == str_find(uri_str, ";")
             first_sc == IF semi = 0 THEN Len(uri_str) + 1 ELSE semi
         IN [ok |-> TRUE,
             method |-> SubSeq(uri_str, 1, first_sc - 1),
             params |-> get_params(SubSeq(uri_str, first_sc, Len(uri_str)))]
    ELSE VoErr

NoVo == [pc |-> "idle", oid |-> Oid(0, Code_digest(1, <<>>)), uri |-> <<>>,
         res |-> VoErr]

\* verify_oid is called
VerifyCall(oid, uri) ==
    /\ vo.pc = "idle"
    /\ vo' = [NoVo EXCEPT !.pc = "called", !.oid = oid, !.uri = uri]
    /\ UNCHANGED <<idVars, listenVars, clones, orbitVars, svcPeer, holders, frame,
                   handle, swarmVars, returned, dpc, wakeVars, panicked>>

\* verify_oid returns
VerifyReturn ==
    /\ vo.pc = "called"
    /\ vo' = [vo EXCEPT !.pc = "done", !.res = verify_oid(vo.oid, vo.uri)]
    /\ UNCHANGED <<idVars, listenVars, clones, orbitVars, svcPeer, holders, frame,
                   handle, swarmVars, returned, dpc, wakeVars, panicked>>

netVars ==
    <<idVars, listenVars, clones, vo, svcPeer, holders, frame, handle, swarmVars,
      returned, dpc, wakeVars, panicked>>

OrbitAt(c, step) ==
    orbitCall[c].pc = "running" /\ Head(orbitCall[c].rest) = step

\* the call ends with res
OrbitEnd(call, res) == [call EXCEPT !.pc = "done", !.rest = <<>>, !.res = res]

\* the call moves to its next statement, having written what
OrbitWrote(call, what) ==
    [call EXCEPT !.rest = Tail(@), !.wrote = @ \cup {what}]

\* create_orbit(oid, path, .., auth, .., kp) is called
CreateOrbit(c, oid, a) ==
    /\ orbitCall[c].pc = "idle"
    /\ orbitCall' = [orbitCall EXCEPT ![c] =
          [NoOrbitCall EXCEPT !.pc = "running", !.fn = "create_orbit",
                              !.oid = oid, !.a = a,
                              !.rest = create_orbit,
                              !.existed = orbitFs[oid].exists]]
    /\ UNCHANGED <<netVars, orbitFs, orbitCache>>

\* load_orbit(oid, path) is called
LoadOrbit(c, oid) ==
    /\ orbitCall[c].pc = "idle"
    /\ orbitCall' = [orbitCall EXCEPT ![c] =
          [NoOrbitCall EXCEPT !.pc = "running", !.fn = "load_orbit",
                              !.oid = oid, !.rest = load_orbit,
                              !.existed = orbitFs[oid].exists]]
    /\ UNCHANGED <<netVars, orbitFs, orbitCache>>

\* Path::exists(): fs::metadata(path).is_ok(), which is false for a directory
\* that is there when the file system does not answer (ok = FALSE: no
\* permission to search the parent, an I/O error)
Path_exists(dir, ok) == dir.exists /\ ok

\* if dir.exists() { return Ok(None); }
OrbitExists(c, ok) ==
    /\ OrbitAt(c, "exists")
    /\ orbitCall' = [orbitCall EXCEPT ![c] =
          IF Path_exists(orbitFs[@.oid], ok) THEN OrbitEnd(@, "None")
          ELSE [@ EXCEPT !.rest = Tail(@),
                         !.stat = IF orbitFs[orbitCall[c].oid].exists
                                  THEN "err" ELSE @]]
    /\ UNCHANGED <<netVars, orbitFs, orbitCache>>

\* a create_dir that succeeds on a directory that exists, as create_dir_all
OrbitCreateDir_all(c, ok) ==
    /\ OrbitAt(c, "create_dir")
    /\ IF ~ok
       THEN /\ orbitCall' = [orbitCall EXCEPT ![c] = OrbitEnd(@, "Err")]
            /\ UNCHANGED orbitFs
       ELSE /\ orbitFs' = [orbitFs EXCEPT ![orbitCall[c].oid].exists = TRUE,
                                          ![orbitCall[c].oid].by = @ \cup {c}]
            /\ orbitCall' = [orbitCall EXCEPT ![c] = OrbitWrote(@, "dir")]
    /\ UNCHANGED <<netVars, orbitCache>>

\* fs::create_dir(&dir).await.map_err(..)?: fails on a directory that exists
\* and whenever the file system refuses (ok = FALSE: no parent, no permission)
OrbitCreateDir(c, ok) ==
    /\ OrbitAt(c, "create_dir")
    /\ LET o == orbitCall[c].oid IN
         IF orbitFs[o].exists \/ ~ok
         THEN /\ orbitCall' = [orbitCall EXCEPT ![c] = OrbitEnd(@, "Err")]
              /\ UNCHANGED orbitFs
         ELSE /\ orbitFs' = [orbitFs EXCEPT ![o].exists = TRUE,
                                            ![o].by = @ \cup {c}]
              /\ orbitCall' = [orbitCall EXCEPT ![c] = OrbitWrote(@, "dir")]
    /\ UNCHANGED <<netVars, orbitCache>>

\* the file the call is about to write, and what it writes
OrbitFile(call) ==
    CASE Head(call.rest) = "write_metadata" ->
           [name |-> "metadata", content |-> OrbitMetadata(call.oid, call.a)]
      [] Head(call.rest) = "write_access_log" ->
           [name |-> "access_log", content |-> <<"auth", call.a>>]
      [] OTHER -> [name |-> "kp", content |-> Keypair_to_bytes(call.a)]

\* the directory with content in the file name
WithFile(dir, name, content) ==
    CASE name = "metadata" -> [dir EXCEPT !.metadata = content]
      [] name = "access_log" -> [dir EXCEPT !.access_log = content]
      [] OTHER -> [dir EXCEPT !.kp = content]

\* fs::write(dir.join(..), ..).await?: the three files; each write ends in
\* one of the three ways of FsWrite, and all but "written" end the call
OrbitWrite(c, w) ==
    /\ \/ OrbitAt(c, "write_metadata")
       \/ OrbitAt(c, "write_access_log")
       \/ OrbitAt(c, "write_kp")
    /\ LET o == orbitCall[c].oid
           f == OrbitFile(orbitCall[c])
       IN /\ orbitFs' =
               IF w = "refused" THEN orbitFs
               ELSE [orbitFs EXCEPT ![o] =
                       [WithFile(@, f.name,
                                 IF w = "written" THEN f.content ELSE CutFile)
                          EXCEPT !.by = @ \cup {c}]]
          /\ orbitCall' = [orbitCall EXCEPT ![c] =
               CASE w = "written" -> OrbitWrote(@, f.name)
                 [] w = "cut" ->
                      [OrbitEnd(@, "Err") EXCEPT !.wrote = @ \cup {f.name}]
                 [] OTHER -> OrbitEnd(@, "Err")]
    /\ UNCHANGED <<netVars, orbitCache>>

\* what the caller of load_orbit makes of Ok(None): load_orbit's own caller
\* has it as it is, create_orbit turns it into an error (ok_or_else, `??`)
OrbitNone(call) == IF call.fn = "create_orbit" THEN "Err" ELSE "None"

\* load_orbit: if !dir.exists() { return Ok(None); }
LoadOrbitExists(c, ok) ==
    /\ OrbitAt(c, "dir_exists")
    /\ orbitCall' = [orbitCall EXCEPT ![c] =
          IF Path_exists(orbitFs[@.oid], ok)
          THEN [@ EXCEPT !.rest = Tail(@), !.loadedWith = orbitCall[c].wrote]
          ELSE [OrbitEnd(@, OrbitNone(@))
                  EXCEPT !.loadedWith = orbitCall[c].wrote]]
    /\ UNCHANGED <<netVars, orbitFs, orbitCache>>

\* load_orbit_, the look-up #[cached] puts in front of the body: an entry for
\* (oid, dir) is the result, and the body does not run
LoadOrbitCached(c) ==
    /\ OrbitAt(c, "cache_get")
    /\ orbitCall' = [orbitCall EXCEPT ![c] =
          IF orbitCache[@.oid] # NoOrbit
          THEN [OrbitEnd(@, "Some") EXCEPT !.orbit = orbitCache[orbitCall[c].oid],
                                           !.hit = TRUE]
          ELSE [@ EXCEPT !.rest = Tail(@)]]
    /\ UNCHANGED <<netVars, orbitFs, orbitCache>>

\* Keypair::from_bytes(&fs::read(dir.join("kp")).await?)?: the read fails on
\* a missing file (or ok = FALSE), from_bytes on bytes that are not a key
LoadOrbitReadKp(c, ok) ==
    /\ OrbitAt(c, "read_kp")
    /\ orbitCall' = [orbitCall EXCEPT ![c] =
          IF orbitFs[@.oid].kp \in {NoFile, CutFile} \/ ~ok
          THEN OrbitEnd(@, "Err")
          ELSE [@ EXCEPT !.rest = Tail(@),
                         !.orbit.kp = orbitFs[orbitCall[c].oid].kp]]
    /\ UNCHANGED <<netVars, orbitFs, orbitCache>>

\* serde_json::from_slice(&fs::read(dir.join("metadata")).await?)?, up to the
\* call of Ipfs::new(cfg): the read fails on a missing file (or ok = FALSE),
\* from_slice on bytes that are not the json of an OrbitMetadata
LoadOrbitReadMetadata(c, ok) ==
    /\ OrbitAt(c, "read_metadata")
    /\ orbitCall' = [orbitCall EXCEPT ![c] =
          LET md == orbitFs[orbitCall[c].oid].metadata IN
          IF md \in {NoFile, CutFile} \/ ~ok
          THEN [OrbitEnd(@, "Err") EXCEPT !.orbit = NoOrbit]
          ELSE [@ EXCEPT !.rest = load_orbit_start(LocalHosts(md[3]))
                                  \o Tail(@),
                         !.orbit.md = md]]
    /\ UNCHANGED <<netVars, orbitFs, orbitCache>>

\* the statements that follow the last listener: the dials of the other
\* hosts, the event task, Store::new(..)?, Service::start(..)? and
\* Ok(Arc::new(Orbit { .. })); ok = FALSE: one of the `?` returns
load_orbit_finish(call, ok) ==
    IF ok THEN [call EXCEPT !.rest = Tail(@)]
    ELSE [OrbitEnd(call, "Err") EXCEPT !.orbit = NoOrbit]

\* one resumption of load_orbit_ after Ipfs::new: with listeners still to
\* make, ipfs.listen_on(addr.clone())? and the suspension at .next().await;
\* with none left, the statements to the end
load_orbit_resume(call, ok) ==
    IF Len(call.rest) > 1 /\ call.rest[2] = "listened"
    THEN IF ok THEN [call EXCEPT !.rest = Tail(@)]
         ELSE [OrbitEnd(call, "Err") EXCEPT !.orbit = NoOrbit]
    ELSE load_orbit_finish(call, ok)

\* Ipfs::new(cfg).await? has its result: an error (ok = FALSE, as for
\* sled::open(..)? and what load_orbit_resume does) or the node, then the
\* store is opened and the first listener made
LoadOrbitStart(c, ok) ==
    /\ OrbitAt(c, "start")
    /\ orbitCall' = [orbitCall EXCEPT ![c] = load_orbit_resume(@, ok)]
    /\ UNCHANGED <<netVars, orbitFs, orbitCache>>

\* ipfs.listen_on(..)?.next().await has returned: the next listener is made,
\* or the statements to the end run
LoadOrbitListened(c, ok) ==
    /\ OrbitAt(c, "listened")
    /\ orbitCall' = [orbitCall EXCEPT ![c] = load_orbit_resume(@, ok)]
    /\ UNCHANGED <<netVars, orbitFs, orbitCache>>

\* load_orbit_ has returned Ok(orbit): #[cached] stores it under (oid, dir)
LoadOrbitStore(c) ==
    /\ OrbitAt(c, "cache_set")
    /\ orbitCache' = [orbitCache EXCEPT ![orbitCall[c].oid] = orbitCall[c].orbit]
    /\ orbitCall' = [orbitCall EXCEPT ![c] = OrbitEnd(@, "Some")]
    /\ UNCHANGED <<netVars, orbitFs>>

\* time = 60, size = 100: an entry is dropped a minute after it was stored,
\* or when a hundred others have been stored after it
CacheEvict(o) ==
    /\ orbitCache[o] # NoOrbit
    /\ orbitCache' = [orbitCache EXCEPT ![o] = NoOrbit]
    /\ UNCHANGED <<netVars, orbitFs, orbitCall>>

\* the caller has the result
OrbitReturn(c) ==
    /\ orbitCall[c].pc = "done"
    /\ orbitCall' = [orbitCall EXCEPT ![c] = NoOrbitCall]
    /\ UNCHANGED <<netVars, orbitFs, orbitCache>>

(* --------------------------- specifications ---------------------------- *)

\* the service as NetworkService::new leaves it: the driver task spawned
Started(peer) ==
    /\ svcPeer = peer
    /\ holders = {}
    /\ frame = [c \in Callers |-> Idle]
    /\ handle = [c \in Callers |-> NoHandle]
    /\ queries = <<>>
    /\ nextId = 1
    /\ work = 0
    /\ unpolled = FALSE
    /\ extAddrs = {}
    /\ returned = {}
    /\ dpc = "parked"
    /\ notified = TRUE
    /\ registered = FALSE
    /\ panicked = {}
    /\ lsn = <<>>
    /\ nextListener = 1
    /\ stream = [c \in Callers |-> NoStream]
    /\ events = 0
    /\ clones = 1
    /\ orbitFs = NoOrbits
    /\ orbitCall = [c \in Callers |-> NoOrbitCall]
    /\ orbitCache = NoCache
    /\ vo = NoVo

\* a service running on a fresh identity at d1
Init ==
    /\ kpFile = [d \in Dirs |->
          IF d = "d1" THEN ed25519_encode(generate_ed25519(LocalKey)) ELSE Absent]
    /\ built = <<Built("d1", LocalKey)>>
    /\ Started(into_peer_id(generate_ed25519(LocalKey)))

CallerStep(c) ==
    \/ StepLock(c)
    \/ StepUnlock(c)
    \/ StepWake(c)
    \/ StepRead(c)
    \/ StepReadExternal(c)
    \/ StepPeerId(c)
    \/ StepNormalize(c)
    \/ StepEvents(c)
    \/ StepApply(c)
    \/ StepAddExternal(c)
    \/ StepSubmit(c)
    \/ StepHandle(c)
    \/ StepReady(c)
    \/ StepAwait(c)
    \/ StepTakeSwarm(c)
    \/ StepCancel(c)
    \/ Return(c)

DriverStep ==
    \/ DriverStart
    \/ DriverRegister
    \/ DriverLock
    \/ \E q \in DOMAIN queries \cup {None}, res \in {OkRes, QueryError} :
          DriverPollReady(q, res)
    \/ DriverPollPending
    \/ DriverPark

\* Spec: one caller thread that may call every facade method but listen_on
\* (SpecListen has the listeners), poll and drop its handle, beside the driver
\* task and the network
Next ==
    \/ \E m \in Methods \ {"listen_on"} : \E arg \in ArgsOf(m) :
          Invoke("c1", m, arg)
    \/ InvokeDrop("c1")
    \/ Poll("c1")
    \/ CallerStep("c1")
    \/ DriverStep
    \/ NetworkEvent

Spec == Init /\ [][Next]_vars

\* SpecQuery: two caller threads that submit get and sync queries, poll and
\* drop their handles
QueryMenu == {"get", "sync"}

QueryStep(c) ==
    \/ StepLock(c)
    \/ StepUnlock(c)
    \/ StepWake(c)
    \/ StepSubmit(c)
    \/ StepHandle(c)
    \/ StepReady(c)
    \/ StepTakeSwarm(c)
    \/ StepCancel(c)
    \/ Return(c)

NextQuery ==
    \/ \E c \in Callers, m \in QueryMenu : \E arg \in ArgsOf(m) : Invoke(c, m, arg)
    \/ \E c \in Callers : InvokeDrop(c)
    \/ \E c \in Callers : Poll(c)
    \/ \E c \in Callers : QueryStep(c)
    \/ DriverStep
    \/ NetworkEvent

SpecQuery == Init /\ [][NextQuery]_vars

\* SpecSync: one caller thread that submits sync queries and polls the handle
\* as a future and as a stream, beside a swarm that reports progress
SyncStep(c) ==
    \/ StepLock(c)
    \/ StepUnlock(c)
    \/ StepWake(c)
    \/ StepSubmit(c)
    \/ StepHandle(c)
    \/ StepReady(c)
    \/ StepTakeSwarm(c)
    \/ StepCancel(c)
    \/ Return(c)

NextSync ==
    \/ \E arg \in ArgsOf("sync") : Invoke("c1", "sync", arg)
    \/ InvokeDrop("c1")
    \/ Poll("c1")
    \/ PollNext("c1")
    \/ SyncStep("c1")
    \/ DriverStep
    \/ \E q \in DOMAIN queries : DriverPollProgress(q)
    \/ NetworkEvent

SpecSync == Init /\ [][NextSync]_vars

\* SpecOneShot: one caller thread that makes one-shot queries and may drop
\* the future it awaits
OneShotStep(c) ==
    \/ StepLock(c)
    \/ StepUnlock(c)
    \/ StepSubmit(c)
    \/ StepAwait(c)
    \/ DropFuture(c)
    \/ Return(c)

NextOneShot ==
    \/ \E m \in OneShotQueries : \E arg \in ArgsOf(m) : Invoke("c1", m, arg)
    \/ OneShotStep("c1")
    \/ DriverStep
    \/ NetworkEvent

SpecOneShot == Init /\ [][NextOneShot]_vars

\* SpecTeardown: two caller threads that submit get and sync queries and drop
\* their handles, and the service dropped while handles are alive
TeardownStep(c) ==
    \/ StepLock(c)
    \/ StepUnlock(c)
    \/ StepWake(c)
    \/ StepSubmit(c)
    \/ StepHandle(c)
    \/ StepTakeSwarm(c)
    \/ StepCancel(c)
    \/ Return(c)

NextTeardown ==
    \/ \E c \in Callers : \E arg \in ArgsOf("get") : Invoke(c, "get", arg)
    \/ \E c \in Callers : \E arg \in ArgsOf("sync") :
          arg.list # <<>> /\ arg.missing # <<>> /\ Invoke(c, "sync", arg)
    \/ \E c \in Callers : InvokeDrop(c)
    \/ \E c \in Callers : TeardownStep(c)
    \/ CloneService
    \/ DropService
    \/ DriverAbort
    \/ DriverStep

SpecTeardown == Init /\ [][NextTeardown]_vars

\* SpecOrbit: two tasks that call create_orbit
NextOrbit ==
    \/ \E c \in Callers, o \in Oids, a \in OrbitArgs : CreateOrbit(c, o, a)
    \/ \E c \in Callers, ok \in BOOLEAN : OrbitExists(c, ok)
    \/ \E c \in Callers, ok \in BOOLEAN : OrbitCreateDir(c, ok)
    \/ \E c \in Callers, w \in FsWrite : OrbitWrite(c, w)
    \/ \E c \in Callers, o \in Oids : LoadOrbit(c, o)
    \/ \E c \in Callers, ok \in BOOLEAN : LoadOrbitExists(c, ok)
    \/ \E c \in Callers : LoadOrbitCached(c)
    \/ \E c \in Callers, ok \in BOOLEAN : LoadOrbitReadKp(c, ok)
    \/ \E c \in Callers, ok \in BOOLEAN : LoadOrbitReadMetadata(c, ok)
    \/ \E c \in Callers, ok \in BOOLEAN : LoadOrbitStart(c, ok)
    \/ \E c \in Callers, ok \in BOOLEAN : LoadOrbitListened(c, ok)
    \/ \E c \in Callers : LoadOrbitStore(c)
    \/ \E o \in Oids : CacheEvict(o)
    \/ \E c \in Callers : OrbitReturn(c)

SpecOrbit == Init /\ [][NextOrbit]_vars

\* SpecOid: one call of verify_oid, on any uri and oid
NextOid ==
    \/ \E uri \in UriStrings : \E oid \in OidsFor(uri) : VerifyCall(oid, uri)
    \/ VerifyReturn

SpecOid == Init /\ [][NextOid]_vars

\* SpecFair: two caller threads that call add_address and get and drop their
\* handles, beside the driver and the network, all scheduled fairly: a thread
\* that can take a step takes it; a thread waiting in lock() gets the mutex
\* if it is free again and again (parking_lot hands a contended mutex over);
\* and a swarm polled again and again reports pending at some poll
FairMenu == {"add_address", "get"}

FairStep(c) ==
    \/ StepUnlock(c)
    \/ StepWake(c)
    \/ StepApply(c)
    \/ StepSubmit(c)
    \/ StepHandle(c)
    \/ StepTakeSwarm(c)
    \/ StepCancel(c)
    \/ Return(c)

NextFair ==
    \/ \E c \in Callers, m \in FairMenu : \E arg \in ArgsOf(m) : Invoke(c, m, arg)
    \/ \E c \in Callers : InvokeDrop(c)
    \/ \E c \in Callers : StepLock(c)
    \/ \E c \in Callers : FairStep(c)
    \/ DriverStep
    \/ NetworkEvent

SpecFair ==
    /\ Init
    /\ [][NextFair]_vars
    /\ WF_vars(DriverStep)
    /\ SF_vars(DriverPollPending)
    /\ \A c \in Callers : WF_vars(FairStep(c)) /\ SF_vars(StepLock(c))

\* SpecOrder: two caller threads that add and read external addresses
OrderMenu == {"add_external_address", "external_addresses"}

OrderStep(c) ==
    \/ StepLock(c)
    \/ StepUnlock(c)
    \/ StepWake(c)
    \/ StepPeerId(c)
    \/ StepNormalize(c)
    \/ StepReadExternal(c)
    \/ StepAddExternal(c)
    \/ Return(c)

NextOrder ==
    \/ \E c \in Callers, m \in OrderMenu : \E arg \in ArgsOf(m) : Invoke(c, m, arg)
    \/ \E c \in Callers : OrderStep(c)
    \/ DriverStart
    \/ DriverRegister
    \/ DriverLock
    \/ DriverPollReady(None, OkRes)
    \/ \E a \in ObservedAddrs : DriverPollObserved(a)
    \/ \E r \in extAddrs : DriverPollEvict(r)
    \/ DriverPollPending
    \/ DriverPark
    \/ NetworkEvent

SpecOrder == Init /\ [][NextOrder]_vars

\* SpecListen: a caller thread that starts listeners, one after the other, and
\* reads or drops the stream listen_on returned, the driver emitting every
\* kind of event, and the transport reporting addresses; every listener is
\* bound to the same address
ListenStep(c) ==
    \/ StepLock(c)
    \/ StepUnlock(c)
    \/ StepWake(c)
    \/ StepEvents(c)
    \/ StepListenOn(c)
    \/ Return(c)

ListenDriverStep ==
    \/ DriverStart
    \/ DriverRegister
    \/ DriverLock
    \/ \E l \in DOMAIN lsn : DriverPollNewAddr(l)
    \/ \E l \in DOMAIN lsn : DriverPollListener(l)
    \/ DriverPollDiscovered
    \/ DriverPollPending
    \/ DriverPark

NextListen ==
    \/ \E arg \in ArgsOf("listen_on") :
          arg.ok /\ arg.addr.base = "/ip4/a" /\ Invoke("c1", "listen_on", arg)
    \/ ListenStep("c1")
    \/ StreamNext("c1")
    \/ DropStream("c1")
    \/ ListenDriverStep
    \/ \E l \in DOMAIN lsn : TransportReport(l)

SpecListen == Init /\ [][NextListen]_vars

\* SpecFirstAddr: the same caller, with the driver emitting the listeners'
\* first addresses only. The driver, the caller, the reader of the stream and
\* the transport are scheduled fairly: the executor polls a woken task, a
\* thread runs on, a listener that was bound gets its address
FirstAddrDriverStep ==
    \/ DriverStart
    \/ DriverRegister
    \/ DriverLock
    \/ \E l \in DOMAIN lsn : DriverPollNewAddr(l)
    \/ DriverPollPending
    \/ DriverPark

NextFirstAddr ==
    \/ \E arg \in ArgsOf("listen_on") : Invoke("c1", "listen_on", arg)
    \/ ListenStep("c1")
    \/ StreamNext("c1")
    \/ DropStream("c1")
    \/ FirstAddrDriverStep
    \/ \E l \in DOMAIN lsn : TransportReport(l)

SpecFirstAddr ==
    /\ Init
    /\ [][NextFirstAddr]_vars
    /\ WF_vars(FirstAddrDriverStep)
    /\ WF_vars(ListenStep("c1"))
    /\ WF_vars(StreamNext("c1"))
    /\ \A l \in 1..MaxListeners : WF_vars(TransportReport(l))

\* constructions only: each directory empty or holding a provisioned RSA key
InitNew ==
    /\ kpFile \in [Dirs -> {Absent} \cup {RsaPkcs8File(k) : k \in Keys}]
    /\ built = <<>>
    /\ Started(NoPeer)

NextNew ==
    \/ \E d \in Dirs : New(d)
    \/ \E i \in 1..MaxNew, rd \in BOOLEAN : NewReadKp(i, rd)
    \/ \E i \in 1..MaxNew, w \in FsWrite : NewWriteKp(i, w)
    \/ \E i \in 1..MaxNew, ok \in BOOLEAN : NewBehaviour(i, ok)
    \/ \E i \in 1..MaxNew, ok \in BOOLEAN : NewSwarm(i, ok)

SpecNew == InitNew /\ [][NextNew]_vars

(* ------------------------------ properties ----------------------------- *)

Finished(c) == frame[c].m # "idle" /\ frame[c].rest = <<>> /\ c \notin panicked

\* the steps that read or mutate the swarm or its behaviour
AccessSteps ==
    {"read", "read_external_addresses", "peer_id", "swarm_events", "apply",
     "add_external_address", "submit", "submit_get", "submit_sync", "cancel"}

\* the parties about to read or mutate the swarm
Accessing ==
    {c \in Callers : frame[c].rest # <<>> /\ Head(frame[c].rest) \in AccessSteps}
    \cup (IF dpc = "drain" THEN {Driver} ELSE {})

\* C1: a sync call with an empty `missing` list, whatever its providers, has
\* submitted nothing to the behaviour when it returns (no QueryId allocated,
\* the handle holds neither id nor swarm), and the first poll of the handle it
\* returns is Ready(Ok(())).
C1_SyncEmptyMissingIsReadyOk ==
    \A c \in Callers :
        (Finished(c) /\ frame[c].m = "sync" /\ frame[c].arg.missing = <<>>)
        => /\ ~frame[c].applied
           /\ handle[c].kind = "SyncQuery"
           /\ handle[c].id = None
           /\ ~handle[c].swarm
           /\ SyncQuery_poll(handle[c]).st = "ready"
           /\ SyncQuery_poll(handle[c]).val = OkRes

\* C1 witness: such a call, made with providers, has returned.
C1_Witness ==
    \E c \in Callers :
        /\ Finished(c) /\ frame[c].m = "sync"
        /\ frame[c].arg.missing = <<>> /\ frame[c].arg.list # <<>>

\* C2: a sync call with no providers and a non-empty `missing` list has
\* submitted nothing when it returns, and the first poll of its handle is
\* Ready(Err(BlockNotFound(m))) with m the first element of `missing`.
C2_SyncNoProvidersIsReadyNotFound ==
    \A c \in Callers :
        (/\ Finished(c) /\ frame[c].m = "sync"
         /\ frame[c].arg.list = <<>> /\ frame[c].arg.missing # <<>>)
        => /\ ~frame[c].applied
           /\ handle[c].kind = "SyncQuery"
           /\ handle[c].id = None
           /\ SyncQuery_poll(handle[c]).st = "ready"
           /\ SyncQuery_poll(handle[c]).val =
                 BlockNotFound(Head(frame[c].arg.missing))

\* C2 witness: such a call whose missing list has two different elements.
C2_Witness ==
    \E c \in Callers :
        /\ Finished(c) /\ frame[c].m = "sync"
        /\ frame[c].arg.list = <<>> /\ frame[c].arg.missing = <<"m2", "m1">>

\* C3: the drop of a GetQuery, or of a SyncQuery that holds a QueryId, calls
\* cancel while it holds the swarm mutex, and when the drop is over that
\* QueryId is not in the behaviour's in-flight query map.
C3_DropCancelsTheQuery ==
    \A c \in Callers :
        /\ (frame[c].m \in DropMethods /\ At(c, "cancel")) => c \in holders
        /\ (Finished(c) /\ frame[c].m \in DropMethods /\ handle[c].id # None)
           => handle[c].id \notin DOMAIN queries

\* C3 witness: a GetQuery was dropped while its query was in flight, and the
\* in-flight map is empty afterwards.
C3_Witness ==
    \E c \in Callers :
        /\ Finished(c) /\ frame[c].m = "GetQuery::drop" /\ frame[c].hit
        /\ ~handle[c].done
        /\ DOMAIN queries = {}

\* C4: no caller ever panics, and the cancel that a drop issues for a QueryId
\* the behaviour no longer holds (the query completed) leaves the behaviour's
\* state as it was.
C4_CancelIsIdempotent ==
    /\ [](panicked = {})
    /\ [][\A c \in Callers :
            (At(c, "cancel") /\ frame'[c] # frame[c]
             /\ handle[c].id \notin DOMAIN queries)
            => UNCHANGED <<queries, nextId, work, unpolled, extAddrs>>]_vars

\* C4 witness: a GetQuery that had resolved was dropped, and its cancel found
\* no query of that id.
C4_Witness ==
    \E c \in Callers :
        /\ Finished(c) /\ frame[c].m = "GetQuery::drop" /\ ~frame[c].hit
        /\ handle[c].done

\* the facade methods that C5 lists
C5Methods ==
    {"listen_on", "add_external_address", "add_address", "remove_address",
     "dial", "ban", "unban", "unprovide", "remove_record", "subscribe",
     "publish", "broadcast", "stream_update_head", "bootstrap",
     "get_closest_peers", "providers", "provide", "get_record", "put_record",
     "get", "sync"}

C5Recorded == Reps(C5Methods)

\* C5: a call of one of the listed methods that has applied a mutation or
\* submitted a query has called waker.wake() after it, by the time it returns
\* or suspends on its channel.
C5_EveryMutationWakes ==
    \A c \in Callers :
        (/\ frame[c].m \in C5Recorded
         /\ frame[c].applied
         /\ Finished(c) \/ At(c, "await"))
        => frame[c].woke

\* no caller has a step to take: each is idle or suspended on an open channel
CallersQuiet ==
    \A c \in Callers :
        \/ frame[c].m = "idle"
        \/ At(c, "await") /\ frame[c].rx.buf = <<>> /\ frame[c].rx.txOpen

\* C6: a submission or mutation never stays unpolled with nothing left to run:
\* whenever the driver is parked and not woken and no caller has a step to
\* take, the driver has polled the swarm after the last submission.
C6_NoStalledSubmission ==
    (dpc = "parked" /\ ~notified /\ CallersQuiet) => ~unpolled

\* C7: the snapshot an external_addresses call returns contains the
\* (normalised) address of every add_external_address call that had returned
\* before the read was invoked, whatever the driver and the other caller did.
C7_ReturnedAddIsVisible ==
    \A c \in Callers :
        (Finished(c) /\ frame[c].m = "external_addresses")
        => frame[c].pre \subseteq frame[c].snap

\* C7 witness: such a read that began after an add_external_address returned.
C7_Witness ==
    \E c \in Callers :
        /\ Finished(c) /\ frame[c].m = "external_addresses"
        /\ frame[c].pre # {}

\* C8: at most one party is about to read or mutate the swarm, it holds the
\* mutex, and the mutex has at most one holder.
C8_MutualExclusion ==
    /\ Cardinality(holders) <= 1
    /\ Cardinality(Accessing) <= 1
    /\ Accessing \subseteq holders

\* C8 witness: the driver is draining while one caller's drop and the other
\* caller's facade call both wait for the mutex.
C8_Witness ==
    /\ dpc = "drain"
    /\ \E c, d \in Callers :
          /\ frame[c].m = "GetQuery::drop" /\ At(c, "lock")
          /\ frame[d].m \notin DropMethods /\ At(d, "lock")

\* C9: a caller suspended on its query channel does not hold the mutex.
C9_NoLockAcrossAwait ==
    \A c \in Callers : At(c, "await") => c \notin holders

\* C9 witness: the driver holds the mutex while a caller is suspended.
C9_Witness ==
    \E c \in Callers : At(c, "await") /\ Driver \in holders

\* C10: a construction made at a directory after one that generated its
\* identity there had returned Ok decodes the kp file, and when it returns Ok
\* it has that construction's peer id.
C10_RestartKeepsIdentity ==
    \A i, j \in 1..Len(built) :
        (/\ i \in built[j].after
         /\ built[i].dir = built[j].dir
         /\ built[i].res = "Ok" /\ built[i].generated
         /\ built[j].pc = "done")
        => /\ built[j].res # "Err(rsa_from_pkcs8)"
           /\ built[j].res = "Ok" => built[j].peer = built[i].peer

\* two constructions at one directory, running side by side, have both
\* generated an identity and returned Ok, with different peer ids
C10_TwoIdentities ==
    \E i, j \in 1..Len(built) :
        /\ i # j /\ built[i].dir = built[j].dir
        /\ built[i].res = "Ok" /\ built[j].res = "Ok"
        /\ built[i].generated /\ built[j].generated
        /\ built[i].peer # built[j].peer

\* a construction whose write of kp failed part-way has left a file that is
\* no key; the next construction at the directory has read it, generated
\* nothing and returned the error of rsa_from_pkcs8
C10_TruncatedKp ==
    \E i, j \in 1..Len(built) :
        /\ i \in built[j].after /\ built[i].dir = built[j].dir
        /\ built[i].res = "Err(fs::write)"
        /\ built[j].res = "Err(rsa_from_pkcs8)" /\ ~built[j].generated
        /\ kpFile[built[j].dir] = Truncated

\* a construction whose read of kp failed on a file that was there has
\* generated an identity and written it over the key an earlier one had
\* provisioned or generated
C10_KeyOverwritten ==
    \E i, j \in 1..Len(built) :
        /\ i \in built[j].after /\ built[i].dir = built[j].dir
        /\ built[i].res = "Ok" /\ built[j].res = "Ok" /\ built[j].generated
        /\ built[i].peer # built[j].peer
        /\ kpFile[built[j].dir] = ed25519_encode(generate_ed25519(built[j].key))

\* a construction has returned an error after it wrote the kp file
C10_ErrAfterWrite ==
    \E i \in 1..Len(built) :
        /\ built[i].res = "Err(NetworkBackendBehaviour::new)"
        /\ built[i].generated
        /\ kpFile[built[i].dir] = ed25519_encode(generate_ed25519(built[i].key))

\* the streams the callers hold from a successful listen_on
ListenStreams ==
    {c \in Callers : stream[c].open /\ stream[c].listener # None}

AddressEvents == {"NewListenAddr", "ExpiredListenAddr"}

\* C11: for the stream a listen_on call returned, with hist the events its
\* adapter has taken from the subscription: every item yielded is the
\* NewListenAddr or ExpiredListenAddr of the call's own listener at some
\* position of hist, with that event's address; the items are in the order of
\* hist; every such event of the own listener in hist was yielded (events of
\* other listeners and of other kinds were not); the stream has ended exactly
\* when ListenerClosed of its own listener was taken, and nothing was taken
\* after it, while a ListenerClosed of another listener does not end it.
C11_ListenStreamFilters ==
    \A c \in ListenStreams :
        LET st == stream[c]
            own(i) == st.hist[i].id = st.listener
        IN /\ \A k \in 1..Len(st.out) :
                 /\ st.out[k].src \in 1..Len(st.hist)
                 /\ own(st.out[k].src)
                 /\ st.hist[st.out[k].src].kind \in AddressEvents
                 /\ st.out[k].kind = st.hist[st.out[k].src].kind
                 /\ st.out[k].addr = st.hist[st.out[k].src].addr
           /\ \A j, k \in 1..Len(st.out) : j < k => st.out[j].src < st.out[k].src
           /\ \A i \in 1..Len(st.hist) :
                 (own(i) /\ st.hist[i].kind \in AddressEvents)
                 => \E k \in 1..Len(st.out) : st.out[k].src = i
           /\ st.ended <=>
                 (/\ st.hist # <<>>
                  /\ st.hist[Len(st.hist)].kind = "ListenerClosed"
                  /\ own(Len(st.hist)))
           /\ \A i \in 1..(Len(st.hist) - 1) :
                 ~(st.hist[i].kind = "ListenerClosed" /\ own(i))

\* C11 witness: a stream that has yielded two items and has taken the
\* ListenerClosed of another listener without ending.
C11_Witness ==
    \E c \in ListenStreams :
        /\ ~stream[c].ended
        /\ Len(stream[c].out) = 2
        /\ \E i \in 1..Len(stream[c].hist) :
              /\ stream[c].hist[i].kind = "ListenerClosed"
              /\ stream[c].hist[i].id # stream[c].listener

\* the stream of c has yielded a NewListenAddr whose address extends the one
\* listen_on was called with and ends with the local peer
YieldedFirstAddress(c) ==
    \E k \in 1..Len(stream[c].out) :
        /\ stream[c].out[k].kind = "NewListenAddr"
        /\ stream[c].out[k].addr.base = stream[c].asked.base
        /\ stream[c].out[k].addr.p2p = svcPeer

\* C12: once a successful listen_on has returned the stream of listener l,
\* the stream, unless its owner drops it, eventually yields a NewListenAddr
\* for l whose address extends the requested one and ends with the local peer
\* suffix, under every fair interleaving with the driver.
C12_FirstAddressIsYielded ==
    \A c \in Callers : \A l \in 1..MaxListeners :
        (c \in ListenStreams /\ stream[c].listener = l /\ frame[c].m = "idle")
        ~> (stream[c].listener # l \/ YieldedFirstAddress(c))

\* C12 witness: the stream of the second listener has yielded its address.
C12_Witness ==
    \E c \in ListenStreams :
        /\ stream[c].listener = 2
        /\ stream[c].asked.base = "/ip4/b"
        /\ YieldedFirstAddress(c)

\* the records of the external-address set that add_external_address stored:
\* the swarm gives the addresses that peers report a finite score
AddedRecords == {r \in extAddrs : r.score # Finite}

\* the address of an add_external_address call that has stored it
StoredBy(c) ==
    IF frame[c].m = "add_external_address" /\ frame[c].applied
    THEN {frame[c].sent} ELSE {}

\* C13: every record of the swarm's external-address set that was added
\* through add_external_address ends with the local peer identity, whatever
\* suffix the caller passed, and has the score Infinite; and the address of
\* every add_external_address call that has stored it, or has returned, is
\* still in the set with that score, whatever the swarm has evicted.
C13_ExternalAddressesAreNormalised ==
    /\ \A r \in AddedRecords :
          /\ r.addr.p2p # NoPeer
          /\ r.addr.p2p = svcPeer
          /\ r.score = "Infinite"
    /\ \A a \in returned \cup UNION {StoredBy(c) : c \in Callers} :
          /\ a.p2p = svcPeer
          /\ [addr |-> a, score |-> "Infinite"] \in extAddrs

\* C13 witness: an add_external_address call that was passed an address
\* without peer suffix has returned, and the address it stored is in the set.
C13_Witness ==
    \E c \in Callers :
        /\ Finished(c) /\ frame[c].m = "add_external_address"
        /\ frame[c].arg.addr.p2p = NoPeer
        /\ \E r \in extAddrs : r.addr = frame[c].sent

\* C13 witness: a call that was passed an address ending with another peer's
\* identity has returned, and the set holds the address with the local one.
C13_OtherPeerWitness ==
    \E c \in Callers :
        /\ Finished(c) /\ frame[c].m = "add_external_address"
        /\ frame[c].arg.addr.p2p = into_peer_id(generate_ed25519(OtherKey))
        /\ [addr |-> [base |-> frame[c].arg.addr.base, p2p |-> svcPeer],
            score |-> "Infinite"] \in extAddrs

\* C13 witness: after an add_external_address call returned, the set holds
\* an observed address too, and the swarm is about to evict a record.
C13_EvictionWitness ==
    /\ returned # {}
    /\ \E r \in extAddrs : ENABLED DriverPollEvict(r)

SyncHandles == {c \in Callers : handle[c].kind = "SyncQuery"}

\* C14: a SyncQuery polled as a future discards progress events only, and
\* has resolved only with the result of the Complete event that ends what
\* the behaviour wrote, everything before it taken from the channel; polled
\* as a stream only, it has yielded the events written, in the order written,
\* none left out, and when poll_next has returned None it has yielded them
\* all, Complete(result) the last.
C14_SyncQueryFutureAndStream ==
    \A c \in SyncHandles :
        LET h == handle[c]
            log == h.rx.log
        IN /\ \A i \in 1..Len(h.dropped) : h.dropped[i].ev = "Progress"
           /\ h.done =>
                 /\ log # <<>>
                 /\ log[Len(log)] = Complete(h.out)
                 /\ \A i \in 1..(Len(log) - 1) : log[i].ev = "Progress"
                 /\ Len(h.dropped) + Len(h.seen) = Len(log) - 1
                 /\ h.rx.buf = <<>>
           /\ (~h.done /\ h.dropped = <<>>) => h.seen \o h.rx.buf = log
           /\ (~h.done /\ h.dropped = <<>> /\ h.ended) =>
                 /\ h.seen = log
                 /\ log # <<>>
                 /\ log[Len(log)].ev = "Complete"

\* C14 witness: a query the swarm made progress on twice before it completed
\* has been polled as a future, which discarded both progress events and
\* resolved with the result
C14_Witness ==
    \E c \in SyncHandles :
        /\ handle[c].done
        /\ Len(handle[c].dropped) = 2
        /\ handle[c].out = QueryError

\* a query the swarm made progress on has been polled as a stream to its end
C14_StreamWitness ==
    \E c \in SyncHandles :
        /\ handle[c].ended
        /\ Len(handle[c].seen) = 3
        /\ handle[c].seen[1].ev = "Progress"

\* C15: every one-shot query in flight has a caller whose future holds its
\* channel: once that future has been dropped, the query's QueryId is no
\* longer among the behaviour's in-flight queries.
C15_DroppedOneShotIsCancelled ==
    \A q \in DOMAIN queries :
        queries[q] = "oneshot" => \E c \in Callers : frame[c].id = q

\* C16: once the service is dropped and its task aborted, nothing holds the
\* swarm any more, live handles notwithstanding, and no handle's drop calls
\* cancel on it.
C16_HandleIsBackReference ==
    (~svcLive /\ dpc = "aborted") =>
        /\ SwarmRefs = 0
        /\ \A c \in Callers : ~At(c, "cancel")

\* a handle's drop reaches its cancel on the swarm after the service is gone
C16_CancelAfterTeardown ==
    \E c \in Callers : ~svcLive /\ dpc = "aborted" /\ At(c, "cancel")

\* the only clone of the service can be dropped while a handle's drop, its
\* Arc taken, waits for the mutex
C16_DropDuringTeardown ==
    \E c \in Callers :
        /\ clones = 1
        /\ DropHoldsSwarm(c) /\ At(c, "lock")
        /\ ENABLED DropService

\* a create_orbit call has failed part-way through its write of kp and has
\* left a file that is no key; a load_orbit of the directory has failed
C18_CutFileWitness ==
    \E c \in Callers, d \in Callers :
        /\ orbitCall[c].pc = "done" /\ orbitCall[c].fn = "create_orbit"
        /\ orbitCall[c].res = "Err"
        /\ orbitFs[orbitCall[c].oid].kp = CutFile
        /\ orbitCall[d].pc = "done" /\ orbitCall[d].fn = "load_orbit"
        /\ orbitCall[d].oid = orbitCall[c].oid /\ orbitCall[d].res = "Err"
        /\ orbitCall[d].existed

\* a load_orbit_ is suspended at the .next().await of a listener
C18_ListenerWitness ==
    \E c \in Callers : OrbitAt(c, "listened")

\* C18 as stated: a create_orbit call made when the directory existed has
\* returned Ok(None) and has written nothing; a call that has returned
\* Ok(Some(orbit)) was made when the directory did not exist, and had
\* created the directory and written metadata, access_log and kp, which hold
\* what it wrote, when it turned to loading the orbit; the orbit is one
\* loaded from what it wrote.
C18_CreateNotOpen ==
    \A c \in Callers :
        LET call == orbitCall[c] IN
        (call.pc = "done" /\ call.fn = "create_orbit") =>
            /\ call.existed => (call.res = "None" /\ call.wrote = {})
            /\ call.res = "None" => call.wrote = {}
            /\ call.res = "Some" =>
                  /\ ~call.existed
                  /\ call.loadedWith = {"dir", "metadata", "access_log", "kp"}
                  /\ orbitFs[call.oid] =
                        [exists |-> TRUE,
                         metadata |-> OrbitMetadata(call.oid, call.a),
                         access_log |-> <<"auth", call.a>>,
                         kp |-> Keypair_to_bytes(call.a),
                         by |-> {c}]
                  /\ call.orbit = [kp |-> Keypair_to_bytes(call.a),
                                   md |-> OrbitMetadata(call.oid, call.a)]

\* C18, amended: a create_orbit call made when the directory existed has
\* written nothing, and has returned Ok(None), or, when its dir.exists()
\* failed to see the directory, the error of create_dir; a call that has
\* returned Ok(None) has written nothing; a call that has returned
\* Ok(Some(orbit)) was made when the directory did not exist, and had
\* created the directory and written metadata, access_log and kp, which hold
\* what it wrote, when it turned to loading the orbit; the orbit is one
\* loaded from what it wrote.
C18_CreateNotOpenWhenSeen ==
    \A c \in Callers :
        LET call == orbitCall[c] IN
        (call.pc = "done" /\ call.fn = "create_orbit") =>
            /\ call.existed =>
                  /\ call.wrote = {}
                  /\ \/ call.res = "None"
                     \/ call.res = "Err" /\ call.stat = "err"
            /\ call.res = "None" => call.wrote = {}
            /\ call.res = "Some" =>
                  /\ ~call.existed
                  /\ call.loadedWith = {"dir", "metadata", "access_log", "kp"}
                  /\ orbitFs[call.oid] =
                        [exists |-> TRUE,
                         metadata |-> OrbitMetadata(call.oid, call.a),
                         access_log |-> <<"auth", call.a>>,
                         kp |-> Keypair_to_bytes(call.a),
                         by |-> {c}]
                  /\ call.orbit = [kp |-> Keypair_to_bytes(call.a),
                                   md |-> OrbitMetadata(call.oid, call.a)]

\* a create_orbit call made when the directory existed did not see it and
\* has returned the error of create_dir, the directory as it was
C18_StatErrWitness ==
    \E c \in Callers :
        /\ orbitCall[c].pc = "done" /\ orbitCall[c].fn = "create_orbit"
        /\ orbitCall[c].existed /\ orbitCall[c].stat = "err"
        /\ orbitCall[c].res = "Err" /\ orbitCall[c].wrote = {}
        /\ c \notin orbitFs[orbitCall[c].oid].by

\* a load_orbit call made on a directory that existed has returned Ok(None):
\* its dir.exists() failed to see the directory
C18_LoadNoneWitness ==
    \E c \in Callers :
        /\ orbitCall[c].pc = "done" /\ orbitCall[c].fn = "load_orbit"
        /\ orbitCall[c].existed /\ orbitCall[c].res = "None"

\* a create_orbit call has created the directory and written the three
\* files, and has returned an error: the dir.exists() of its load_orbit
\* failed to see the directory
C18_WrittenNotFoundWitness ==
    \E c \in Callers :
        /\ orbitCall[c].pc = "done" /\ orbitCall[c].fn = "create_orbit"
        /\ orbitCall[c].res = "Err"
        /\ orbitCall[c].wrote = {"dir", "metadata", "access_log", "kp"}
        /\ orbitCall[c].loadedWith = orbitCall[c].wrote
        /\ orbitCall[c].rest = <<>>
        /\ orbitFs[orbitCall[c].oid].kp = Keypair_to_bytes(orbitCall[c].a)
        /\ orbitFs[orbitCall[c].oid].metadata =
              OrbitMetadata(orbitCall[c].oid, orbitCall[c].a)
        /\ ~orbitCall[c].hit

\* C18 witness: one call has returned Ok(Some(orbit)) for an oid and another,
\* made with other arguments when the directory existed, Ok(None)
C18_Witness ==
    \E c \in Callers, d \in Callers :
        /\ orbitCall[c].pc = "done" /\ orbitCall[c].res = "Some"
        /\ orbitCall[d].pc = "done" /\ orbitCall[d].res = "None"
        /\ orbitCall[c].fn = "create_orbit" /\ orbitCall[d].fn = "create_orbit"
        /\ orbitCall[d].existed
        /\ orbitCall[d].oid = orbitCall[c].oid
        /\ orbitCall[d].a # orbitCall[c].a

\* a create_orbit call has returned the orbit that a load_orbit call running
\* beside it had put in the cache
C18_CachedWitness ==
    \E c \in Callers :
        /\ orbitCall[c].pc = "done" /\ orbitCall[c].res = "Some"
        /\ orbitCall[c].fn = "create_orbit"
        /\ orbitCall[c].hit
        /\ \E d \in Callers \ {c} :
              /\ orbitCall[d].pc = "done" /\ orbitCall[d].res = "Some"
              /\ orbitCall[d].fn = "load_orbit"
              /\ orbitCall[d].oid = orbitCall[c].oid

\* the positions of the ';' of the uri of the verify_oid call
Semis == {i \in 1..Len(vo.uri) : vo.uri[i] = ";"}

\* the segment that follows the ';' at position p, up to the next ';'
SegmentAfter(p) ==
    LET stops == {q \in Semis : q > p} \cup {Len(vo.uri) + 1}
        stop == CHOOSE q \in stops : \A r \in stops : q <= r
    IN SubSeq(vo.uri, p + 1, stop - 1)

Equals(seg) == {i \in 1..Len(seg) : seg[i] = "="}
KeyOf(seg) == SubSeq(seg, 1, (CHOOSE i \in Equals(seg) : TRUE) - 1)
ValueOf(seg) == SubSeq(seg, (CHOOSE i \in Equals(seg) : TRUE) + 1, Len(seg))

\* the ';' followed by a segment with exactly one '='
ParamSegments == {p \in Semis : Cardinality(Equals(SegmentAfter(p))) = 1}

\* C19: verify_oid succeeds exactly when the oid's hash code is one Code
\* knows, the digest of the uri under it is the oid's multihash, and the codec
\* is raw; the method it returns is the uri up to its first ';'; the
\* parameters are one entry per key of the segments with exactly one '=', the
\* value that of the last such segment with the key.
C19_VerifyOid ==
    vo.pc = "done" =>
        /\ vo.res.ok <=>
              /\ vo.oid.hash.code \in Code_table
              /\ vo.oid.hash = Code_digest(vo.oid.hash.code, vo.uri)
              /\ vo.oid.codec = 85
        /\ ~vo.res.ok => vo.res = VoErr
        /\ vo.res.ok =>
              LET method == vo.res.method
                  params == vo.res.params
              IN /\ Len(method) <= Len(vo.uri)
                 /\ method = SubSeq(vo.uri, 1, Len(method))
                 /\ \A i \in 1..Len(method) : method[i] # ";"
                 /\ Len(method) < Len(vo.uri) => vo.uri[Len(method) + 1] = ";"
                 /\ DOMAIN params = {KeyOf(SegmentAfter(p)) : p \in ParamSegments}
                 /\ \A p \in ParamSegments :
                       (\A q \in ParamSegments :
                           q > p => KeyOf(SegmentAfter(q)) # KeyOf(SegmentAfter(p)))
                       => params[KeyOf(SegmentAfter(p))] = ValueOf(SegmentAfter(p))

\* C19 witness: verify_oid has succeeded on a uri with a method, a segment
\* without '=' and a segment with one '='
C19_Witness ==
    /\ vo.pc = "done" /\ vo.res.ok
    /\ vo.res.method # <<>>
    /\ ParamSegments # {}
    /\ Semis \ ParamSegments # {}

\* verify_oid has succeeded on a uri that has a key twice, with two values
C19_RepeatedKeyWitness ==
    /\ vo.pc = "done" /\ vo.res.ok
    /\ \E p \in ParamSegments, q \in ParamSegments :
          /\ p < q
          /\ KeyOf(SegmentAfter(p)) = KeyOf(SegmentAfter(q))
          /\ ValueOf(SegmentAfter(p)) # ValueOf(SegmentAfter(q))

\* verify_oid has failed on an oid that has the uri's digest and another codec
C19_CodecWitness ==
    /\ vo.pc = "done" /\ ~vo.res.ok
    /\ vo.oid.hash = Code_digest(18, vo.uri)

\* C20: a caller that is about to call waker.wake() does not hold the swarm
\* mutex: the order of a mutation or submission is lock, apply, release, wake.
C20_WakeAfterUnlock ==
    \A c \in Callers : At(c, "wake") => c \notin holders

\* C21: the parked driver task does not hold the swarm mutex; within a poll
\* it holds the mutex only while it drains and until it returns, which is
\* after it has registered its waker.
C21_ParkedDriverHoldsNoLock ==
    /\ dpc \in {"parked", "register", "lock"} => Driver \notin holders
    /\ dpc \in {"drain", "return"} => Driver \in holders

\* C21 witness: the driver has drained and parked, its waker registered, and
\* a caller holds the mutex
C21_Witness ==
    /\ dpc = "parked"
    /\ registered
    /\ ~notified
    /\ \E c \in Callers : c \in holders

\* C22: the driver leaves its drain only by a swarm poll that found nothing
\* ready; while the swarm has something ready the driver stays in the drain;
\* and when the driver is about to park or is parked, whatever the swarm has
\* ready came after the drain: with a wake-up of the task, or by a call the
\* driver has not polled after.
C22_DriverDrainsFully ==
    [][/\ (dpc' = "return" /\ dpc # "return") => (dpc = "drain" /\ work = 0)
       /\ (dpc = "drain" /\ work > 0) => dpc' = "drain"
       /\ (dpc' \in {"return", "parked"} /\ work' > 0) => (notified' \/ unpolled')
      ]_vars

\* C22 witness: the driver has ended a drain in which nothing is left, after
\* the swarm finished a query and delivered its result
C22_Witness ==
    /\ dpc = "return"
    /\ work = 0
    /\ \E c \in Callers : handle[c].kind # "none" /\ handle[c].rx.log # <<>>
                          /\ handle[c].id # None

\* C23: a caller waiting for the swarm mutex, in a facade method or in the
\* drop of a handle, eventually holds it.
C23_CallersAreNotStarved ==
    \A c \in Callers : At(c, "lock") ~> (c \in holders)

\* C23 witness: a caller's drop of its handle waits for the mutex while the
\* driver holds it in a drain with something ready
C23_Witness ==
    \E c \in Callers :
        /\ At(c, "lock")
        /\ frame[c].m \in DropMethods
        /\ dpc = "drain"
        /\ work > 0

\* if every drain of the driver ends, a caller waiting for the mutex
\* eventually holds it
C23_NotStarvedIfDrainsEnd ==
    ([]<>(dpc # "drain")) => C23_CallersAreNotStarved

\* C24: no poll of a SyncQuery as a future fails to return: no caller is
\* inside a poll whose loop goes on for ever.
C24_SyncQueryPollReturns ==
    \A c \in Callers : frame[c].m # "poll-loops"

\* the statements a caller has left up to the release of the guard it holds
UntilUnlock(c) ==
    LET rest == frame[c].rest
        stops == {i \in 1..Len(rest) : rest[i] = "unlock"}
    IN IF stops = {} THEN rest
       ELSE SubSeq(rest, 1, (CHOOSE i \in stops : \A j \in stops : i <= j) - 1)

\* C25: no call locks the swarm mutex while it holds it: a caller about to
\* lock is not a holder; a caller that holds the mutex has its release ahead
\* with no lock and no await before it; and the drop of a SyncQuery without
\* an id has no statement to execute.
C25_NoSelfDeadlock ==
    \A c \in Callers :
        /\ At(c, "lock") => c \notin holders
        /\ (c \in holders /\ c \notin panicked) =>
              /\ \E i \in 1..Len(frame[c].rest) : frame[c].rest[i] = "unlock"
              /\ \A i \in 1..Len(UntilUnlock(c)) :
                    UntilUnlock(c)[i] \notin {"lock", "await"}
        /\ (frame[c].m = "SyncQuery::drop" /\ handle[c].id = None) =>
              frame[c].rest = <<>>

\* C25 witness: add_external_address is about to take its own lock, the lock
\* hold of local_peer_id finished
C25_Witness ==
    \E c \in Callers :
        /\ frame[c].m = "add_external_address"
        /\ At(c, "lock")
        /\ frame[c].peer # NoPeer
        /\ c \notin holders

\* bootstrap is about to take its own lock, add_address and dial done
C25_BootstrapWitness ==
    \E c \in Callers :
        /\ frame[c].arg.list # <<>>
        /\ frame[c].rest = <<"lock", "submit", "unlock", "await">>
        /\ frame[c].woke
        /\ c \notin holders

\* the drop of a short-circuited SyncQuery is under way
C25_ReadyDropWitness ==
    \E c \in Callers : frame[c].m = "SyncQuery::drop" /\ handle[c].id = None

\* C26: the directory of an orbit and its files are written by the calls of
\* one caller only; of two calls for the same oid that run at the same time
\* at most one has written anything; and a call that has returned Ok(None),
\* or an error from create_dir, has written nothing.
C26_OneCreatorWrites ==
    /\ \A o \in Oids : Cardinality(orbitFs[o].by) <= 1
    /\ \A c \in Callers, d \in Callers :
          (c # d /\ orbitCall[c].pc # "idle" /\ orbitCall[d].pc # "idle"
                 /\ orbitCall[c].oid = orbitCall[d].oid)
          => (orbitCall[c].wrote = {} \/ orbitCall[d].wrote = {})
    /\ \A c \in Callers :
          (orbitCall[c].pc = "done" /\ c \notin orbitFs[orbitCall[c].oid].by)
          => orbitCall[c].wrote = {}

\* C26 witness: two calls for the same oid both found the directory absent;
\* one has created the orbit, the other has failed without writing
C26_Witness ==
    \E c \in Callers, d \in Callers :
        /\ c # d
        /\ orbitCall[c].oid = orbitCall[d].oid
        /\ orbitCall[c].fn = "create_orbit" /\ orbitCall[d].fn = "create_orbit"
        /\ orbitCall[c].pc = "done" /\ orbitCall[c].res = "Some"
        /\ orbitCall[d].pc = "done" /\ orbitCall[d].res = "Err"
        /\ ~orbitCall[c].existed /\ ~orbitCall[d].existed
        /\ orbitCall[d].wrote = {}

\* of two calls for the same oid made on an absent directory, one has created
\* the orbit; the dir.exists() of the other failed on the directory the first
\* had created by then, and it has returned the error of create_dir without
\* writing
C26_StatErrWitness ==
    \E c \in Callers, d \in Callers :
        /\ c # d
        /\ orbitCall[c].oid = orbitCall[d].oid
        /\ orbitCall[c].fn = "create_orbit" /\ orbitCall[d].fn = "create_orbit"
        /\ orbitCall[c].pc = "done" /\ orbitCall[c].res = "Some"
        /\ orbitCall[d].pc = "done" /\ orbitCall[d].res = "Err"
        /\ ~orbitCall[c].existed /\ ~orbitCall[d].existed
        /\ orbitCall[d].stat = "err"
        /\ orbitCall[d].wrote = {}
        /\ orbitFs[orbitCall[c].oid].by = {c}

====
